---- MODULE Spec2Model ----
(***************************************************************************)
(* rootspace: the Stanford polygon (PLY) mesh loader of                    *)
(* src/rootspace/model_parser.py and the command line bootstrap of         *)
(* src/rootspace/main.py, as state machines.                               *)
(*                                                                         *)
(* A file is a sequence of header lines followed by body numbers. A line   *)
(* is a record of its words: kw (the statement keyword as spelled in the   *)
(* file), l (the word "list" of a list property, "" otherwise), a, b, c    *)
(* (the remaining words), n (an integer word) and hi (the line holds a     *)
(* byte above 0x7f). File offsets are counted in lines: `lead` units of    *)
(* leading blank bytes, then one unit per line.                            *)
(*                                                                         *)
(* pyparsing is modelled as the 2.x series the parser was written for:     *)
(* countedArray returns its items as one group, and `expr * 0` raises      *)
(* ValueError.                                                             *)
(***************************************************************************)
EXTENDS Integers, Sequences, FiniteSets, TLC

----------------------------------------------------------------------------
(* Bounds of the explored inputs *)

MaxCount == 2
MaxListLen == 2
MaxVerbose == 4
MaxNameLen == 5
MaxElements == 3
MaxCalls == 2
MaxFrames == 2
MaxFiles == 3

----------------------------------------------------------------------------
(* Generic helpers *)

Range(s) == {s[i] : i \in DOMAIN s}

RECURSIVE Concat(_)
Concat(ss) == IF ss = <<>> THEN <<>> ELSE Head(ss) \o Concat(Tail(ss))

RECURSIVE SumSeq(_)
SumSeq(s) == IF s = <<>> THEN 0 ELSE Head(s) + SumSeq(Tail(s))

Index(s, x) == CHOOSE i \in DOMAIN s : s[i] = x /\ \A j \in 1..(i - 1) : s[j] # x

(* A local name: Body applied to the value *)
Bind(value, Body(_)) == Body(value)

----------------------------------------------------------------------------
(* Class constants of PlyParser *)

begin_header_keyword == "ply"
end_header_keyword == "end_header"
comment_keyword == "comment"
format_keyword == "format"
element_keyword == "element"
property_keyword == "property"
list_keyword == "list"

format_type_map ==
    [ascii |-> "ASCII", binary_little_endian |-> "BINARY_LE", binary_big_endian |-> "BINARY_BE"]

byte_order_map == [ASCII |-> "=", BINARY_LE |-> "<", BINARY_BE |-> ">"]

data_type_map ==
    [char |-> "b", uchar |-> "B", short |-> "h", ushort |-> "H",
     int |-> "i", uint |-> "I", float |-> "f", double |-> "d",
     int8 |-> "b", uint8 |-> "B", int16 |-> "h", uint16 |-> "H",
     int32 |-> "i", uint32 |-> "I", float32 |-> "f", float64 |-> "d"]

data_type_precedence == <<"b", "B", "h", "H", "i", "I", "f", "d">>
allowed_index_types == <<"B", "H", "I">>
default_index_type == "I"

(* The absent value None, where a sequence is expected *)
None == <<"None">>

----------------------------------------------------------------------------
(* Letter case. CaselessKeyword compares the upper-cased input with the     *)
(* upper-cased keyword and returns the keyword as it was defined; bytes.find *)
(* compares bytes exactly.                                                  *)

Keywords ==
    {begin_header_keyword, format_keyword, comment_keyword, element_keyword,
     property_keyword, list_keyword, end_header_keyword}

Upper(s) ==
    CASE s = "ply" -> "PLY"
      [] s = "format" -> "FORMAT"
      [] s = "comment" -> "COMMENT"
      [] s = "element" -> "ELEMENT"
      [] s = "property" -> "PROPERTY"
      [] s = "list" -> "LIST"
      [] s = "end_header" -> "END_HEADER"
      [] OTHER -> s

Lower(s) ==
    CASE s = "PLY" -> "ply"
      [] s = "FORMAT" -> "format"
      [] s = "COMMENT" -> "comment"
      [] s = "ELEMENT" -> "element"
      [] s = "PROPERTY" -> "property"
      [] s = "LIST" -> "list"
      [] s = "END_HEADER" -> "end_header"
      [] OTHER -> s

CaselessKeyword(word, keyword) == Upper(Lower(word)) = Upper(keyword)

----------------------------------------------------------------------------
(* PLY documents (the grammar of the class docstring) and the files that    *)
(* hold them. A document is described by its declarations; Lines and         *)
(* BodyNums write it out as the lines and numbers of the file.               *)

Line(kw, l, a, b, c, n, hi) == [kw |-> kw, l |-> l, a |-> a, b |-> b, c |-> c, n |-> n, hi |-> hi]

SimpleDecl(t, nm) == [list |-> FALSE, index_type |-> "", data_type |-> t, name |-> nm]
ListDecl(it, dt, nm) == [list |-> TRUE, index_type |-> it, data_type |-> dt, name |-> nm]
ElemDecl(nm, cnt, props) == [name |-> nm, count |-> cnt, props |-> props]

Spell(k, caps) == IF k \in caps THEN Upper(k) ELSE k

(* The number written for slot `slot` of record r of element e *)
Val(d, e, r, slot) == d.base + 32 * (e - 1) + 8 * (r - 1) + slot

(* The length of the list written in record r *)
ListLen(d, r) == (d.lenpat + r - 1) % (MaxListLen + 1)

ListVals(d, e, r) == [i \in 1..ListLen(d, r) |-> Val(d, e, r, i)]

FieldNums(d, e, r, p) ==
    IF d.elements[e].props[p].list
    THEN <<ListLen(d, r)>> \o ListVals(d, e, r)
    ELSE <<Val(d, e, r, p)>>

RecordNums(d, e, r) ==
    Concat([p \in 1..Len(d.elements[e].props) |-> FieldNums(d, e, r, p)])

ElementNums(d, e) == Concat([r \in 1..d.elements[e].count |-> RecordNums(d, e, r)])

BodyNums(d) ==
    LET nums == Concat([e \in 1..Len(d.elements) |-> ElementNums(d, e)])
    IN  CASE d.defect = "short" -> IF nums = <<>> THEN <<>> ELSE SubSeq(nums, 1, Len(nums) - 1)
          [] d.defect = "long" -> Append(nums, 7)
          [] OTHER -> nums

PropertyLine(p, caps) ==
    IF p.list
    THEN Line(Spell(property_keyword, caps), Spell(list_keyword, caps), p.index_type, p.data_type, p.name, 0, FALSE)
    ELSE Line(Spell(property_keyword, caps), "", p.data_type, p.name, "", 0, FALSE)

ElementLines(el, caps) ==
    <<Line(Spell(element_keyword, caps), "", el.name, "", "", el.count, FALSE)>>
    \o [p \in 1..Len(el.props) |-> PropertyLine(el.props[p], caps)]

CommentLines(d) ==
    IF d.comment = "none" THEN <<>>
    ELSE <<Line(Spell(comment_keyword, d.caps), "", d.comment, "", "", 0, d.comment = "latin1")>>

Lines(d) ==
    IF d.empty THEN <<>>
    ELSE <<Line(Spell(begin_header_keyword, d.caps), "", "", "", "", 0, FALSE),
           Line(Spell(format_keyword, d.caps), "", d.format, "1.0", "", 0, FALSE)>>
         \o (IF d.cpos = "head" THEN CommentLines(d) ELSE <<>>)
         \o Concat([e \in 1..Len(d.elements) |-> ElementLines(d.elements[e], d.caps)])
         \o (IF d.cpos = "tail" THEN CommentLines(d) ELSE <<>>)
         \o (IF d.terminated
             THEN <<Line(Spell(end_header_keyword, d.caps), "", "", "", "", 0, FALSE)>>
             ELSE <<>>)

FileOf(d) ==
    [lead |-> d.lead, lines |-> Lines(d), body |-> IF d.empty THEN <<>> ELSE BodyNums(d)]

Doc(elements) ==
    [empty |-> FALSE, lead |-> 0, caps |-> {}, format |-> "ascii", comment |-> "none",
     cpos |-> "head", terminated |-> TRUE, elements |-> elements,
     base |-> 0, lenpat |-> 0, defect |-> "none"]

EmptyDoc == [Doc(<<>>) EXCEPT !.empty = TRUE]

(* Property lists *)
PropertyLists ==
    LET xyz == <<SimpleDecl("float", "x"), SimpleDecl("float", "y"), SimpleDecl("float", "z")>>
        q == <<SimpleDecl("short", "q")>>
        vertex_index == <<ListDecl("uchar", "int", "vertex_index")>>
        foo == <<ListDecl("uchar", "uchar", "foo")>>
    IN  [xyz |-> xyz,
         xq |-> <<SimpleDecl("float", "x"), SimpleDecl("float", "q")>>,
         normal |-> xyz \o <<SimpleDecl("uchar", "q"), SimpleDecl("uchar", "w")>>
                    \o <<SimpleDecl("float", "nx"), SimpleDecl("float", "ny"), SimpleDecl("float", "nz")>>,
         color |-> <<SimpleDecl("uchar", "red"), SimpleDecl("uchar", "green"), SimpleDecl("uchar", "blue"),
                     SimpleDecl("uchar", "alpha"), SimpleDecl("uchar", "s"), SimpleDecl("uchar", "t")>>,
         q |-> q,
         vertex_index |-> vertex_index,
         foo |-> foo,
         lists |-> vertex_index \o foo,
         mixed |-> q \o foo]

Counts == 0..MaxCount

CubeElements == <<ElemDecl("vertex", 1, PropertyLists.xyz), ElemDecl("face", 1, PropertyLists.vertex_index)>>

CapsChoices == {{}} \cup {{k} : k \in Keywords} \cup {Keywords}

CommentChoices ==
    {<<"none", "head">>} \cup ({"text", "end_header", "latin1"} \X {"head", "tail"})

(* Files that differ in their markers, keyword case, format and comments *)
MarkerDocs ==
    {[Doc(CubeElements) EXCEPT !.lead = ld, !.caps = cp, !.format = fm,
                               !.comment = cm[1], !.cpos = cm[2], !.terminated = tm] :
        ld \in 0..1, cp \in CapsChoices, fm \in DOMAIN format_type_map,
        cm \in CommentChoices, tm \in BOOLEAN}

PairProps(nm) ==
    CASE nm = "vertex" -> {PropertyLists.xyz, PropertyLists.xq, PropertyLists.q}
      [] nm = "face" -> {PropertyLists.vertex_index, PropertyLists.foo}
      [] OTHER -> {PropertyLists.q}

PairDecls ==
    UNION {{ElemDecl(nm, cnt, pr) : cnt \in Counts, pr \in PairProps(nm)} : nm \in {"vertex", "face", "mat"}}

SingleDecls ==
    {ElemDecl(nm, cnt, pr) :
        nm \in {"vertex", "face", "edge", "mat"}, cnt \in Counts,
        pr \in Range(PropertyLists)}

HasList(els) == \E e \in DOMAIN els : \E p \in DOMAIN els[e].props : els[e].props[p].list

LenPats(els) == IF HasList(els) THEN 0..MaxListLen ELSE {0}

(* Files that differ in their elements, properties, record counts and numbers *)
ElementSeqs == {<<e>> : e \in SingleDecls} \cup {<<e1, e2>> : e1 \in PairDecls, e2 \in PairDecls}

ShapeDocs ==
    UNION {{[Doc(els) EXCEPT !.base = v[1], !.defect = v[2], !.lenpat = lp] :
                v \in ({0} \X {"none", "short", "long"}) \cup ({-2, 250} \X {"none"}),
                lp \in LenPats(els)} :
           els \in ElementSeqs}

ShortTypes == {"char", "uchar", "short", "ushort", "int", "uint", "float", "double"}
WidthTypes == {"int8", "uint8", "int16", "uint16", "int32", "uint32", "float32", "float64"}

(* Files that differ in the declared property types *)
TypeDocs ==
    {Doc(<<ElemDecl("vertex", 1, <<SimpleDecl(t1, "x"), SimpleDecl(t2, "q")>>),
           ElemDecl("face", 1, <<ListDecl(it, dt, "vertex_index")>>)>>) :
        t1 \in ShortTypes, t2 \in ShortTypes, it \in {"uchar", "double", "uint16"}, dt \in WidthTypes}
    \cup
    {Doc(<<ElemDecl("face", 1, <<ListDecl(it, dt, "foo")>>),
           ElemDecl(nm, 1, <<SimpleDecl(t1, "q")>>)>>) :
        it \in {"uchar", "double"}, dt \in ShortTypes, t1 \in ShortTypes, nm \in {"face", "vertex"}}

Docs == {EmptyDoc} \cup MarkerDocs \cup ShapeDocs \cup TypeDocs

----------------------------------------------------------------------------
(* Exceptions and results *)

IsValueError(kind) == kind \in {"ValueError", "UnicodeDecodeError"}

Raise(kind) ==
    [kind |-> kind, data |-> <<>>, data_type |-> "", index |-> <<>>, index_type |-> "",
     attributes |-> <<>>]

Mesh(data, data_type, index, index_type, attributes) ==
    [kind |-> "Mesh", data |-> data, data_type |-> data_type, index |-> index,
     index_type |-> index_type, attributes |-> attributes]

NoResult == Raise("")

Attribute(name, data_type, components, stride, start_index) ==
    [name |-> name, data_type |-> data_type, components |-> components,
     stride |-> stride, start_index |-> start_index]

----------------------------------------------------------------------------
(* The memory map of the file *)

FileSize(f) == f.lead + Len(f.lines) + Len(f.body)

Contains(line, keyword) == keyword \in {line.kw, line.l, line.a, line.b, line.c}

(* mmap.find: the offset of the first occurrence of the bytes, or -1 *)
find(f, keyword) ==
    IF \E i \in DOMAIN f.lines : Contains(f.lines[i], keyword)
    THEN f.lead - 1 + CHOOSE i \in DOMAIN f.lines :
                          /\ Contains(f.lines[i], keyword)
                          /\ \A j \in 1..(i - 1) : ~Contains(f.lines[j], keyword)
    ELSE -1

(* file_mmap[begin:end] *)
Slice(f, begin, end) ==
    [i \in 1..(end - begin) |-> f.lines[begin + i - f.lead]]

(* _extract_header accepting the keyword `ply` at any offset *)
_extract_headerAnywhere(f) ==
    LET begin_idx == find(f, begin_header_keyword)
        end_idx == find(f, end_header_keyword)
        bytes == Slice(f, begin_idx, end_idx + 1)
    IN  IF begin_idx = -1 \/ end_idx = -1
        THEN [raised |-> "ValueError", header_data |-> <<>>, tell |-> 0]
        ELSE IF \E i \in DOMAIN bytes : bytes[i].hi
        THEN [raised |-> "UnicodeDecodeError", header_data |-> <<>>, tell |-> 0]
        ELSE [raised |-> "", header_data |-> bytes, tell |-> end_idx + 1]

_extract_header(f) ==
    LET begin_idx == find(f, begin_header_keyword)
        end_idx == find(f, end_header_keyword)
        bytes == Slice(f, begin_idx, end_idx + 1)
    IN  IF begin_idx # 0 \/ end_idx = -1
        THEN [raised |-> "ValueError", header_data |-> <<>>, tell |-> 0]
        ELSE IF \E i \in DOMAIN bytes : bytes[i].hi
        THEN [raised |-> "UnicodeDecodeError", header_data |-> <<>>, tell |-> 0]
        ELSE [raised |-> "", header_data |-> bytes, tell |-> end_idx + 1]

----------------------------------------------------------------------------
(* The header grammar of PlyParser.create *)

IsIdentifier(w) == w \notin {"", "1.0"}
IsReal(w) == w = "1.0"
IsType(w) == Lower(w) \in DOMAIN data_type_map

Group(name, list, keys) == [name |-> name, list |-> list, keys |-> keys]

(* A key is the set of the alternative names of one variable; {"*"} is an identifier *)
property_position == Group("position", FALSE, <<{"x"}, {"y"}, {"z"}>>)
property_color == Group("color", FALSE, <<{"r", "red"}, {"g", "green"}, {"b", "blue"}, {"a", "alpha"}>>)
property_ambient_color ==
    Group("ambient_color", FALSE, <<{"ambient_red"}, {"ambient_green"}, {"ambient_blue"}, {"ambient_alpha"}>>)
property_diffuse_color ==
    Group("diffuse_color", FALSE, <<{"diffuse_red"}, {"diffuse_green"}, {"diffuse_blue"}, {"diffuse_alpha"}>>)
property_specular_color ==
    Group("specular_color", FALSE, <<{"specular_red"}, {"specular_green"}, {"specular_blue"}, {"specular_alpha"}>>)
property_texture == Group("texture", FALSE, <<{"s", "u", "tx"}, {"t", "v", "ty"}>>)
property_normal == Group("normal", FALSE, <<{"nx"}, {"ny"}, {"nz"}>>)
property_specular_power == Group("specular_power", FALSE, <<{"specular_power"}>>)
property_opacity == Group("opacity", FALSE, <<{"opacity"}>>)
property_simple_catchall == Group("other_simple", FALSE, <<{"*"}>>)
property_vertex_index == Group("vertex_index", TRUE, <<{"vertex_index", "vertex_indices"}>>)
property_material_index == Group("material_index", TRUE, <<{"material_index", "material_indices"}>>)
property_list_catchall == Group("other_list", TRUE, <<{"*"}>>)

VertexProperties ==
    <<property_position, property_color, property_ambient_color, property_diffuse_color,
      property_specular_color, property_texture, property_normal, property_specular_power,
      property_opacity, property_simple_catchall>>
FaceProperties == <<property_vertex_index, property_material_index, property_list_catchall>>
EdgeProperties == <<property_color, property_simple_catchall>>

KeyMatches(name, key) == IF key = {"*"} THEN IsIdentifier(name) ELSE Lower(name) \in key

MatchVariable(ln, g, key) ==
    /\ CaselessKeyword(ln.kw, property_keyword)
    /\ IF g.list
       THEN CaselessKeyword(ln.l, list_keyword) /\ IsType(ln.a) /\ IsType(ln.b) /\ KeyMatches(ln.c, key)
       ELSE ln.l = "" /\ IsType(ln.a) /\ KeyMatches(ln.b, key)

(* Variable with the two types of a list property exchanged *)
VariableSwapped(ln, g) ==
    IF g.list
    THEN [data_type |-> data_type_map[Lower(ln.a)], index_type |-> data_type_map[Lower(ln.b)], name |-> ln.c]
    ELSE [data_type |-> data_type_map[Lower(ln.a)], index_type |-> "", name |-> ln.b]

Variable(ln, g) ==
    IF g.list
    THEN [data_type |-> data_type_map[Lower(ln.b)], index_type |-> data_type_map[Lower(ln.a)], name |-> ln.c]
    ELSE [data_type |-> data_type_map[Lower(ln.a)], index_type |-> "", name |-> ln.b]

(* _aggregate_property: every variable of the group, in sequence *)
MatchGroup(L, i, g) ==
    /\ i + Len(g.keys) - 1 <= Len(L)
    /\ \A j \in 1..Len(g.keys) : MatchVariable(L[i + j - 1], g, g.keys[j])

_aggregate_property(L, i, g) ==
    [name |-> g.name, vars |-> [j \in 1..Len(g.keys) |-> Variable(L[i + j - 1], g)]]

(* MatchFirst: the first alternative that matches at line i, 0 if none does *)
MatchFirst(L, i, gs) ==
    IF \E k \in DOMAIN gs : MatchGroup(L, i, gs[k])
    THEN CHOOSE k \in DOMAIN gs : MatchGroup(L, i, gs[k]) /\ \A j \in 1..(k - 1) : ~MatchGroup(L, i, gs[j])
    ELSE 0

RECURSIVE OneOrMore(_, _, _)
OneOrMore(L, i, gs) ==
    Bind(MatchFirst(L, i, gs), LAMBDA k :
        IF k = 0 THEN [next |-> i, groups |-> <<>>]
        ELSE Bind(OneOrMore(L, i + Len(gs[k].keys), gs), LAMBDA rest :
                 [next |-> rest.next, groups |-> <<_aggregate_property(L, i, gs[k])>> \o rest.groups]))

(* One property group: the first alternative that matches at line i *)
ExactlyOne(L, i, gs) ==
    Bind(MatchFirst(L, i, gs), LAMBDA k :
        IF k = 0 THEN [next |-> i, groups |-> <<>>]
        ELSE [next |-> i + Len(gs[k].keys), groups |-> <<_aggregate_property(L, i, gs[k])>>])

NoElement == [ok |-> FALSE, next |-> 0, el |-> [name |-> "", count |-> 0, properties |-> <<>>]]

(* An element statement followed by its property groups; no match without a group *)
Element(name, count, props) ==
    IF props.groups = <<>> THEN NoElement
    ELSE [ok |-> TRUE, next |-> props.next,
          el |-> [name |-> name, count |-> count, properties |-> props.groups]]

ElementHead(L, i) ==
    i <= Len(L) /\ CaselessKeyword(L[i].kw, element_keyword) /\ IsIdentifier(L[i].a)

element_vertex(L, i) ==
    IF ElementHead(L, i) /\ Lower(L[i].a) = "vertex"
    THEN Element("vertex", L[i].n, OneOrMore(L, i + 1, VertexProperties))
    ELSE NoElement

element_face(L, i) ==
    IF ElementHead(L, i) /\ Lower(L[i].a) = "face"
    THEN Element("face", L[i].n, ExactlyOne(L, i + 1, FaceProperties))
    ELSE NoElement

element_edge(L, i) ==
    IF ElementHead(L, i) /\ Lower(L[i].a) = "edge"
    THEN Element("edge", L[i].n, OneOrMore(L, i + 1, EdgeProperties))
    ELSE NoElement

(* OneOrMore(property_simple_catchall) | property_list_catchall *)
element_catchall(L, i) ==
    IF ~ElementHead(L, i) THEN NoElement
    ELSE Bind(Element(L[i].a, L[i].n, OneOrMore(L, i + 1, <<property_simple_catchall>>)), LAMBDA simple :
             IF simple.ok THEN simple
             ELSE Element(L[i].a, L[i].n, ExactlyOne(L, i + 1, <<property_list_catchall>>)))

(* element_vertex | element_face | element_edge | element_catchall *)
element_group(L, i) ==
    Bind(element_vertex(L, i), LAMBDA vertex :
        IF vertex.ok THEN vertex
        ELSE Bind(element_face(L, i), LAMBDA face :
                 IF face.ok THEN face
                 ELSE Bind(element_edge(L, i), LAMBDA edge :
                          IF edge.ok THEN edge ELSE element_catchall(L, i))))

RECURSIVE ElementGroups(_, _)
ElementGroups(L, i) ==
    Bind(element_group(L, i), LAMBDA e :
        IF ~e.ok THEN [next |-> i, elements |-> <<>>]
        ELSE Bind(ElementGroups(L, e.next), LAMBDA rest :
                 [next |-> rest.next, elements |-> <<e.el>> \o rest.elements]))

NoTokens == [format |-> [file_type |-> "", version |-> ""], elements |-> <<>>]

(* header.ignore(comment_expr): comment statements are skipped wherever they stand *)
IgnoreComments(lines) == SelectSeq(lines, LAMBDA ln : ~CaselessKeyword(ln.kw, comment_keyword))

Header(L, declared) ==
    IF /\ Len(L) >= 2
       /\ CaselessKeyword(L[1].kw, begin_header_keyword)
       /\ CaselessKeyword(L[2].kw, format_keyword)
       /\ Lower(L[2].a) \in DOMAIN format_type_map
       /\ IsReal(L[2].b)
       /\ declared.elements # <<>>
       /\ declared.next = Len(L)
       /\ CaselessKeyword(L[Len(L)].kw, end_header_keyword)
    THEN [raised |-> "",
          tokens |-> [format |-> [file_type |-> format_type_map[Lower(L[2].a)], version |-> L[2].b],
                      elements |-> declared.elements]]
    ELSE [raised |-> "ParseException", tokens |-> NoTokens]

tokenize_header(header_data) ==
    Bind(IgnoreComments(header_data), LAMBDA L : Header(L, ElementGroups(L, 3)))

----------------------------------------------------------------------------
(* Aggregate data types and vertex attributes *)

(* for el in elements: if el.name == element_name: for prop: for variable: data_type *)
CandidateTypes(token_tree, element_name) ==
    Concat([e \in DOMAIN token_tree.elements |->
        IF token_tree.elements[e].name = element_name
        THEN Concat([g \in DOMAIN token_tree.elements[e].properties |->
                 [v \in DOMAIN token_tree.elements[e].properties[g].vars |->
                     token_tree.elements[e].properties[g].vars[v].data_type]])
        ELSE <<>>])

Precedence(t) == Index(data_type_precedence, t)

(* PriorityType taking the smallest precedence *)
PriorityTypeLowest(types) ==
    types[CHOOSE i \in DOMAIN types :
            /\ \A j \in DOMAIN types : Precedence(types[j]) >= Precedence(types[i])
            /\ \A j \in 1..(i - 1) : Precedence(types[j]) > Precedence(types[i])]

(* max(candidate_types, key=precedence): the first of the largest *)
PriorityType(types) ==
    types[CHOOSE i \in DOMAIN types :
            /\ \A j \in DOMAIN types : Precedence(types[j]) <= Precedence(types[i])
            /\ \A j \in 1..(i - 1) : Precedence(types[j]) < Precedence(types[i])]

(* _get_aggregate_data_type without the check against the allowed types *)
_get_aggregate_data_typeUnchecked(token_tree, element_name, default_data_type, allowed_data_types) ==
    LET candidate_types == CandidateTypes(token_tree, element_name)
    IN  IF Len(candidate_types) > 0 THEN PriorityType(candidate_types) ELSE default_data_type

_get_aggregate_data_type(token_tree, element_name, default_data_type, allowed_data_types) ==
    LET candidate_types == CandidateTypes(token_tree, element_name)
    IN  IF Len(candidate_types) > 0
        THEN LET priority_type == PriorityType(candidate_types)
             IN  IF allowed_data_types # None
                 THEN IF priority_type \in Range(allowed_data_types)
                      THEN priority_type
                      ELSE default_data_type
                 ELSE priority_type
        ELSE default_data_type

(* ParseResults.items(): one entry per results name, in the order the names *)
(* first occurred, each holding the last group that carries the name        *)
LastNamed(props, name) ==
    props[CHOOSE i \in DOMAIN props :
            props[i].name = name /\ \A j \in (i + 1)..Len(props) : props[j].name # name]

RECURSIVE ItemsFrom(_, _)
ItemsFrom(props, i) ==
    IF i > Len(props) THEN <<>>
    ELSE (IF \A j \in 1..(i - 1) : props[j].name # props[i].name
          THEN <<LastNamed(props, props[i].name)>>
          ELSE <<>>) \o ItemsFrom(props, i + 1)

(* items with one entry per group, whatever its name *)
itemsEvery(props) == props

items(props) == ItemsFrom(props, 1)

ElementAttributes(element, vertex_data_type, start_index) ==
    LET it == items(element.properties)
        stride == SumSeq([k \in DOMAIN it |-> Len(it[k].vars)])
    IN  [k \in DOMAIN it |->
            Attribute(it[k].name, vertex_data_type, Len(it[k].vars), stride,
                      start_index + SumSeq([j \in 1..(k - 1) |-> Len(it[j].vars)]))]

RECURSIVE AttributesFrom(_, _, _, _, _)
AttributesFrom(elements, i, vertex_data_type, element_name, start_index) ==
    IF i > Len(elements) THEN <<>>
    ELSE IF elements[i].name = element_name
    THEN LET attrs == ElementAttributes(elements[i], vertex_data_type, start_index)
         IN  attrs \o AttributesFrom(elements, i + 1, vertex_data_type, element_name,
                                     start_index + SumSeq([k \in DOMAIN attrs |-> attrs[k].components]))
    ELSE AttributesFrom(elements, i + 1, vertex_data_type, element_name, start_index)

_get_vertex_attributes(header_tokens, vertex_data_type, element_name) ==
    AttributesFrom(header_tokens.elements, 1, vertex_data_type, element_name, 0)

----------------------------------------------------------------------------
(* The body *)

(* for prop in element.properties: for variable in prop *)
Variables(element) == Concat([g \in DOMAIN element.properties |-> element.properties[g].vars])

NoMatch == [ok |-> FALSE, pos |-> 0, toks |-> <<>>]

(* ParseField keeping the count of a counted array among its values *)
ParseFieldKeepCount(variable, nums, pos) ==
    IF variable.index_type # ""
    THEN IF pos <= Len(nums) /\ nums[pos] >= 0 /\ pos + nums[pos] <= Len(nums)
         THEN [ok |-> TRUE, pos |-> pos + nums[pos] + 1,
               toks |-> <<[list |-> TRUE, vals |-> SubSeq(nums, pos, pos + nums[pos])]>>]
         ELSE NoMatch
    ELSE IF pos <= Len(nums)
         THEN [ok |-> TRUE, pos |-> pos + 1, toks |-> <<[list |-> FALSE, vals |-> <<nums[pos]>>]>>]
         ELSE NoMatch

(* One variable of a record: a counted array (the count, then one group of *)
(* that many numbers) or one number                                        *)
ParseField(variable, nums, pos) ==
    IF variable.index_type # ""
    THEN IF pos <= Len(nums) /\ nums[pos] >= 0 /\ pos + nums[pos] <= Len(nums)
         THEN [ok |-> TRUE, pos |-> pos + nums[pos] + 1,
               toks |-> <<[list |-> TRUE, vals |-> SubSeq(nums, pos + 1, pos + nums[pos])]>>]
         ELSE NoMatch
    ELSE IF pos <= Len(nums)
         THEN [ok |-> TRUE, pos |-> pos + 1, toks |-> <<[list |-> FALSE, vals |-> <<nums[pos]>>]>>]
         ELSE NoMatch

RECURSIVE ParseRecord(_, _, _, _)
ParseRecord(variables, k, nums, pos) ==
    IF k > Len(variables) THEN [ok |-> TRUE, pos |-> pos, toks |-> <<>>]
    ELSE Bind(ParseField(variables[k], nums, pos), LAMBDA f :
             IF ~f.ok THEN NoMatch
             ELSE Bind(ParseRecord(variables, k + 1, nums, f.pos), LAMBDA rest :
                      IF ~rest.ok THEN NoMatch
                      ELSE [ok |-> TRUE, pos |-> rest.pos, toks |-> f.toks \o rest.toks]))

(* element_data * count *)
RECURSIVE ParseRecords(_, _, _, _)
ParseRecords(variables, count, nums, pos) ==
    IF count = 0 THEN [ok |-> TRUE, pos |-> pos, toks |-> <<>>]
    ELSE Bind(ParseRecord(variables, 1, nums, pos), LAMBDA r :
             IF ~r.ok THEN NoMatch
             ELSE Bind(ParseRecords(variables, count - 1, nums, r.pos), LAMBDA rest :
                      IF ~rest.ok THEN NoMatch
                      ELSE [ok |-> TRUE, pos |-> rest.pos, toks |-> <<r.toks>> \o rest.toks]))

(* pp.And(body_expr): the elements in the order of the header *)
RECURSIVE ParseBody(_, _, _, _)
ParseBody(elements, e, nums, pos) ==
    IF e > Len(elements) THEN [ok |-> TRUE, pos |-> pos, toks |-> <<>>]
    ELSE Bind(ParseRecords(Variables(elements[e]), elements[e].count, nums, pos), LAMBDA g :
             IF ~g.ok THEN NoMatch
             ELSE Bind(ParseBody(elements, e + 1, nums, g.pos), LAMBDA rest :
                      IF ~rest.ok THEN NoMatch
                      ELSE [ok |-> TRUE, pos |-> rest.pos,
                            toks |-> <<[name |-> elements[e].name, records |-> g.toks]>> \o rest.toks]))

(* body_tokens.<name>: the last group of that results name, "" if there is none *)
Named(body_tokens, name) ==
    IF \E i \in DOMAIN body_tokens : body_tokens[i].name = name
    THEN LastNamed(body_tokens, name).records
    ELSE <<>>

Item(tag, v) == [tag |-> tag, v |-> v]

(* (value for vertex in body_tokens.vertex for value in vertex) *)
VertexItems(records) ==
    Concat([r \in DOMAIN records |->
        [k \in DOMAIN records[r] |->
            IF records[r][k].list THEN Item("ParseResults", 0) ELSE Item("int", records[r][k].vals[1])]])

(* (value for group in body_tokens.face for face in group for value in face) *)
FaceItems(records) ==
    Concat([r \in DOMAIN records |->
        Concat([k \in DOMAIN records[r] |->
            IF records[r][k].list
            THEN [i \in DOMAIN records[r][k].vals |-> Item("int", records[r][k].vals[i])]
            ELSE <<Item("not iterable", 0)>>])])

(* The value ranges of the array type codes. The integers of the model lie *)
(* within 32 bits, so of "i" and "I" only the sign can be violated         *)
Fits(typecode, v) ==
    CASE typecode = "b" -> -128 <= v /\ v <= 127
      [] typecode = "B" -> 0 <= v /\ v <= 255
      [] typecode = "h" -> -32768 <= v /\ v <= 32767
      [] typecode = "H" -> 0 <= v /\ v <= 65535
      [] typecode = "I" -> 0 <= v
      [] OTHER -> TRUE

(* array.array(typecode, iterable): stops at the first item it cannot store. *)
(* The integers of the model are exact in the float type codes.              *)
array_array(typecode, its) ==
    IF \E i \in DOMAIN its : its[i].tag # "int" \/ ~Fits(typecode, its[i].v)
    THEN LET i == CHOOSE i \in DOMAIN its :
                    /\ its[i].tag # "int" \/ ~Fits(typecode, its[i].v)
                    /\ \A j \in 1..(i - 1) : its[j].tag = "int" /\ Fits(typecode, its[j].v)
         IN  [raised |-> IF its[i].tag # "int" THEN "TypeError" ELSE "OverflowError", vals |-> <<>>]
    ELSE [raised |-> "", vals |-> [i \in DOMAIN its |-> its[i].v]]

(* The two arrays of the Mesh, or the exception the first failing one raised *)
Arrays(vertex_data, vertex_data_type, index_data, index_data_type) ==
    IF vertex_data.raised # "" THEN Raise(vertex_data.raised)
    ELSE IF index_data.raised # "" THEN Raise(index_data.raised)
    ELSE Mesh(vertex_data.vals, vertex_data_type, index_data.vals, index_data_type, <<>>)

(* Returns the data, or the exception raised; the attributes are added by parse *)
_parse_ascii_data(header_tokens, f, tell, vertex_data_type, index_data_type) ==
    IF \E e \in DOMAIN header_tokens.elements : header_tokens.elements[e].count = 0
    THEN Raise("ValueError")
    ELSE IF Slice(f, tell, f.lead + Len(f.lines)) # <<>> THEN Raise("ParseException")
    ELSE Bind(ParseBody(header_tokens.elements, 1, f.body, 1), LAMBDA body :
             IF ~body.ok \/ body.pos # Len(f.body) + 1 THEN Raise("ParseException")
             ELSE Arrays(array_array(vertex_data_type, VertexItems(Named(body.toks, "vertex"))),
                         vertex_data_type,
                         array_array(index_data_type, FaceItems(Named(body.toks, "face"))),
                         index_data_type))

(* ParseResults.__getattr__ answers "" for a name that is no results name; the *)
(* grammar names "format" and "elements" at the top, and no "declarations"     *)
HasResultsName(results, name) == name \in DOMAIN results

(* file_mmap.read(n) of what is left after the header, one unit per number *)
Read(f, tell, n) == SubSeq(f.body, 1, IF n < Len(f.body) THEN n ELSE Len(f.body))

_parse_binary_data(header_tokens, f, tell, vertex_data_type, index_data_type) ==
    IF ~HasResultsName(header_tokens, "declarations")
    THEN Raise("AttributeError")
    ELSE LET elements == header_tokens.declarations.elements
             vertex_element == elements[CHOOSE e \in DOMAIN elements :
                                   elements[e].name = "vertex"
                                   /\ \A j \in 1..(e - 1) : elements[j].name # "vertex"]
             width == Len(Variables(vertex_element))
             buffer == Read(f, tell, vertex_element.count * width)
         IN  IF \A e \in DOMAIN elements : elements[e].name # "vertex" THEN Raise("StopIteration")
             ELSE IF vertex_element.count * width = 0 \/ Len(buffer) % width # 0 THEN Raise("struct.error")
             ELSE IF buffer # <<>> THEN Raise("TypeError")
             ELSE Mesh(<<>>, vertex_data_type, <<0>>, index_data_type, <<>>)

----------------------------------------------------------------------------
(* parse and load *)

DataTypes(tokens) ==
    [vertex |-> _get_aggregate_data_type(tokens, "vertex", "f", None),
     index |-> _get_aggregate_data_type(tokens, "face", default_index_type, allowed_index_types)]

ParseData(tokens, f, tell, vertex_data_type, index_data_type, vertex_attributes) ==
    Bind(IF tokens.format.file_type = "ASCII"
         THEN _parse_ascii_data(tokens, f, tell, vertex_data_type, index_data_type)
         ELSE _parse_binary_data(tokens, f, tell, vertex_data_type, index_data_type), LAMBDA data :
        IF data.kind = "Mesh" THEN [data EXCEPT !.attributes = vertex_attributes] ELSE data)

(* parse, from the memory map to the Mesh; mmap refuses an empty file *)
parse(f) ==
    IF FileSize(f) = 0 THEN Raise("ValueError")
    ELSE Bind(_extract_header(f), LAMBDA h :
        IF h.raised # "" THEN Raise(h.raised)
        ELSE Bind(tokenize_header(h.header_data), LAMBDA t :
            IF t.raised # "" THEN Raise(t.raised)
            ELSE Bind(DataTypes(t.tokens), LAMBDA types :
                ParseData(t.tokens, f, h.tell, types.vertex, types.index,
                          _get_vertex_attributes(t.tokens, types.vertex, "vertex")))))

(* The arguments of load: the class of the object and its `mode` attribute *)
Arg(type, has_mode, mode) == [type |-> type, has_mode |-> has_mode, mode |-> mode]

Args ==
    {Arg("str", FALSE, <<>>), Arg("bytes", FALSE, <<>>), Arg("PosixPath", FALSE, <<>>),
     Arg("BufferedReader", TRUE, <<"r", "b">>), Arg("BufferedRandom", TRUE, <<"r", "b", "+">>),
     Arg("TextIOWrapper", TRUE, <<"r">>), Arg("int", FALSE, <<>>), Arg("NoneType", FALSE, <<>>)}

Bases(type) ==
    CASE type = "PosixPath" -> {"PosixPath", "Path", "PurePath", "object"}
      [] type = "Path" -> {"Path", "PurePath", "object"}
      [] type = "bool" -> {"bool", "int", "object"}
      [] OTHER -> {type, "object"}

isinstance(a, classes) == Bases(a.type) \cap classes # {}

(* load accepting every object that has a `mode` attribute *)
loadAnyMode(a) ==
    IF isinstance(a, {"str", "bytes"}) THEN "open"
    ELSE IF isinstance(a, {"Path"}) THEN "file.open"
    ELSE IF a.has_mode THEN "parse"
    ELSE "TypeError"

(* The branch load takes *)
load(a) ==
    IF isinstance(a, {"str", "bytes"}) THEN "open"
    ELSE IF isinstance(a, {"Path"}) THEN "file.open"
    ELSE IF a.has_mode /\ "b" \in Range(a.mode) THEN "parse"
    ELSE "TypeError"

----------------------------------------------------------------------------
(* The command line bootstrap *)

project_name == "rootspace"

(* The levels of the logging module *)
logging == [ERROR |-> 40, WARN |-> 30, INFO |-> 20, DEBUG |-> 10]

(* The parameters of utilities.get_log_level *)
get_log_level_parameters == <<"verbosity">>

(* get_log_level refusing a negative verbosity *)
get_log_levelNonNegative(verbosity) ==
    IF verbosity < 0 THEN [raised |-> "ValueError", level |-> 0]
    ELSE IF verbosity = 0 THEN [raised |-> "", level |-> logging.ERROR]
    ELSE IF verbosity = 1 THEN [raised |-> "", level |-> logging.WARN]
    ELSE IF verbosity = 2 THEN [raised |-> "", level |-> logging.INFO]
    ELSE [raised |-> "", level |-> logging.DEBUG]

get_log_level(verbosity) ==
    IF verbosity <= 0 THEN [raised |-> "", level |-> logging.ERROR]
    ELSE IF verbosity = 1 THEN [raised |-> "", level |-> logging.WARN]
    ELSE IF verbosity = 2 THEN [raised |-> "", level |-> logging.INFO]
    ELSE IF verbosity >= 3 THEN [raised |-> "", level |-> logging.DEBUG]
    ELSE [raised |-> "ValueError", level |-> 0]

Event(op, name, level, flag) == [op |-> op, name |-> name, level |-> level, flag |-> flag]

(* main passes the positional arguments (verbose, debug) to get_log_level;  *)
(* a call with a number of arguments the function does not take raises      *)
(* TypeError before the function body runs                                  *)
main(a) ==
    LET arguments == <<"verbose", "debug">>
        called == <<Event("get_log_level", "", a.verbose, a.debug)>>
        log_level == get_log_level(a.verbose)
        configured ==
            called \o <<Event("configure_logger", project_name, log_level.level, a.debug),
                        Event("Loop", project_name, 0, a.debug),
                        Event(IF a.profile THEN "cProfile.runctx" ELSE "loop.run", "", 0, FALSE)>>
    IN  IF Len(arguments) # Len(get_log_level_parameters)
        THEN [trace |-> called, raised |-> "TypeError"]
        ELSE IF log_level.raised # "" THEN [trace |-> called, raised |-> log_level.raised]
        ELSE IF a.run_raises THEN [trace |-> configured, raised |-> "Exception"]
        ELSE [trace |-> Append(configured, Event("logging.shutdown", "", 0, FALSE)), raised |-> ""]

(* click.version_option prints the version and exits before main is entered *)
command(a) == IF a.version THEN [trace |-> <<>>, raised |-> ""] ELSE main(a)

Invocations ==
    [verbose : 0..MaxVerbose, debug : BOOLEAN, profile : BOOLEAN, log_file : {"", "PATH"},
     version : BOOLEAN, run_raises : BOOLEAN]

----------------------------------------------------------------------------
(* The values the functions of utilities.py are called on. A value is its  *)
(* class and its content, the content written as a sequence of strings; a  *)
(* call returns a value or raises.                                         *)

Value(type, v) == [type |-> type, v |-> v]

NoneValue == Value("NoneType", <<>>)

Return(value) == [raised |-> "", value |-> value]

Throw(kind) == [raised |-> kind, value |-> NoneValue]

(* The text of a UUID is a sequence of pieces: the markers "urn:" and      *)
(* "uuid:", the characters "{", "}" and "-", and blocks of eight           *)
(* characters. HexBlocks gives, in lower case, the number a block of       *)
(* hexadecimal digits stands for; "0000000g" is a block that is none.      *)
HexBlocks ==
    ("00000000" :> "00000000") @@ ("0000000a" :> "0000000a") @@ ("0000000A" :> "0000000a")
        @@ ("0000000b" :> "0000000b")

(* len(hex) *)
HexLen(hex) ==
    SumSeq([i \in DOMAIN hex |-> IF hex[i] \in {"{", "}", "-"} THEN 1 ELSE 8])

(* hex.strip('{}') *)
strip(hex) ==
    IF \A i \in DOMAIN hex : hex[i] \in {"{", "}"} THEN <<>>
    ELSE SubSeq(hex,
                CHOOSE i \in DOMAIN hex :
                    hex[i] \notin {"{", "}"} /\ \A j \in 1..(i - 1) : hex[j] \in {"{", "}"},
                CHOOSE i \in DOMAIN hex :
                    hex[i] \notin {"{", "}"} /\ \A j \in (i + 1)..Len(hex) : hex[j] \in {"{", "}"})

(* uuid.UUID(hex): the markers, the outer braces and the hyphens are       *)
(* dropped; what is left must be 32 hexadecimal digits                     *)
UUID(hex) ==
    Bind(SelectSeq(strip(SelectSeq(hex, LAMBDA c : c \notin {"urn:", "uuid:"})), LAMBDA c : c # "-"),
         LAMBDA digits :
             IF HexLen(digits) # 32 THEN Throw("ValueError")
             ELSE IF \E i \in DOMAIN digits : digits[i] \notin DOMAIN HexBlocks THEN Throw("ValueError")
             ELSE Return(Value("UUID", [i \in DOMAIN digits |-> HexBlocks[digits[i]]])))

(* to_uuid without the branch that passes a UUID on *)
to_uuidOfText(value) ==
    IF isinstance(value, {"str"}) THEN UUID(value.v)
    ELSE IF value.type = "NoneType" THEN Return(NoneValue)
    ELSE Throw("TypeError")

to_uuid(value) ==
    IF isinstance(value, {"UUID"}) THEN Return(value)
    ELSE IF isinstance(value, {"str"}) THEN UUID(value.v)
    ELSE IF value.type = "NoneType" THEN Return(NoneValue)
    ELSE Throw("TypeError")

(* The texts a UUID is written as, and texts that are none: too short,     *)
(* too long, a brace inside, a block that is no hexadecimal number         *)
UuidDigits ==
    {<<b>> \o r : b \in DOMAIN HexBlocks \cup {"0000000g"}, r \in [1..3 -> {"00000000", "0000000A"}]}

Hyphenated(b) == <<b[1], "-", b[2], "-", b[3], "-", b[4]>>

UuidTexts ==
    UNION {{b, Hyphenated(b), <<"{">> \o Hyphenated(b) \o <<"}">>, <<"urn:", "uuid:">> \o Hyphenated(b),
            <<"{">> \o b, <<b[1], "{", b[2], b[3], b[4]>>, SubSeq(b, 1, 3), b \o <<b[1]>>}
           : b \in UuidDigits} \cup {<<>>}

UuidArguments ==
    {Value("str", t) : t \in UuidTexts}
        \cup {UUID(b).value : b \in {d \in UuidDigits : UUID(d).raised = ""}}
        \cup {NoneValue, Value("int", <<"42">>), Value("bytes", <<"00000000">>),
              Value("list", <<"str">>)}

(* Names are sequences of characters. The characters the names of the      *)
(* model are written in: two lower-case letters, their capitals, a digit   *)
(* and the underscore.                                                     *)
Lowercase == {"a", "b"}

Uppercase == {"A", "B"}

Digits == {"0"}

upper(c) == CASE c = "a" -> "A" [] c = "b" -> "B" [] OTHER -> c

lower(c) == CASE c = "A" -> "a" [] c = "B" -> "b" [] OTHER -> c

(* name.split("_") *)
RECURSIVE split(_)
split(name) ==
    IF "_" \notin Range(name) THEN <<name>>
    ELSE <<SubSeq(name, 1, Index(name, "_") - 1)>>
             \o split(SubSeq(name, Index(name, "_") + 1, Len(name)))

(* x.capitalize() *)
capitalize(x) == [i \in DOMAIN x |-> IF i = 1 THEN upper(x[i]) ELSE lower(x[i])]

underscore_to_camelcase(name) ==
    Concat([i \in DOMAIN split(name) |->
               IF capitalize(split(name)[i]) = <<>> THEN <<"_">> ELSE capitalize(split(name)[i])])

(* The end of the longest run of lower-case letters that starts at j *)
RunEnd(s, j) ==
    CHOOSE e \in j..Len(s) :
        /\ \A k \in j..e : s[k] \in Lowercase
        /\ e < Len(s) => s[e + 1] \notin Lowercase

(* FIRST_CAP_RE.sub(r"\1_\2", s) from position i on: a character, a capital *)
(* and the lower-case letters after it, as many as there are                *)
RECURSIVE FIRST_CAP_RE(_, _)
FIRST_CAP_RE(s, i) ==
    IF i > Len(s) THEN <<>>
    ELSE IF i + 2 <= Len(s) /\ s[i + 1] \in Uppercase /\ s[i + 2] \in Lowercase
    THEN <<s[i], "_">> \o SubSeq(s, i + 1, RunEnd(s, i + 2)) \o FIRST_CAP_RE(s, RunEnd(s, i + 2) + 1)
    ELSE <<s[i]>> \o FIRST_CAP_RE(s, i + 1)

(* ALL_CAP_RE.sub(r"\1_\2", s) from position i on: a lower-case letter or   *)
(* digit and a capital                                                      *)
RECURSIVE ALL_CAP_RE(_, _)
ALL_CAP_RE(s, i) ==
    IF i > Len(s) THEN <<>>
    ELSE IF i + 1 <= Len(s) /\ s[i] \in Lowercase \cup Digits /\ s[i + 1] \in Uppercase
    THEN <<s[i], "_", s[i + 1]>> \o ALL_CAP_RE(s, i + 2)
    ELSE <<s[i]>> \o ALL_CAP_RE(s, i + 1)

(* camelcase_to_underscore with the first substitution only *)
camelcase_to_underscoreFirstCap(name) ==
    [i \in DOMAIN FIRST_CAP_RE(name, 1) |-> lower(FIRST_CAP_RE(name, 1)[i])]

camelcase_to_underscore(name) ==
    [i \in DOMAIN ALL_CAP_RE(FIRST_CAP_RE(name, 1), 1) |-> lower(ALL_CAP_RE(FIRST_CAP_RE(name, 1), 1)[i])]

(* The names of at most MaxNameLen lower-case letters and underscores *)
Names == UNION {[1..n -> Lowercase \cup {"_"}] : n \in 0..MaxNameLen}

(* The validators. A container value is written as the sequence of the    *)
(* classes of its elements; the characters of a str are of class str. A    *)
(* validator returns None or raises, and `iterated` counts the elements    *)
(* it took out of the value.                                               *)
Validated(raised, iterated) == [raised |-> raised, value |-> NoneValue, iterated |-> iterated]

Iterable(value) == Bases(value.type) \cap {"list", "tuple", "str"} # {}

(* all(isinstance(el, cls_element) for el in value) stops at the first     *)
(* element that is no instance                                             *)
Mismatches(cls_element, value) ==
    {i \in DOMAIN value.v : ~isinstance(Value(value.v[i], <<>>), {cls_element})}

all(cls_element, value) ==
    IF ~Iterable(value) THEN Validated("TypeError", 0)
    ELSE IF Mismatches(cls_element, value) = {} THEN Validated("", Len(value.v))
    ELSE Validated("TypeError", CHOOSE i \in Mismatches(cls_element, value) :
                                    \A j \in Mismatches(cls_element, value) : i <= j)

(* IterableValidator looking at the elements before the container *)
IterableValidatorElementsFirst(cls_container, cls_element, value) ==
    IF all(cls_element, value).raised # "" THEN all(cls_element, value)
    ELSE IF ~isinstance(value, {cls_container})
    THEN Validated("TypeError", all(cls_element, value).iterated)
    ELSE all(cls_element, value)

(* IterableValidator.__call__ of iterable_of(cls_container, cls_element) *)
IterableValidator(cls_container, cls_element, value) ==
    IF ~isinstance(value, {cls_container}) THEN Validated("TypeError", 0)
    ELSE all(cls_element, value)

(* Containers of at most MaxElements elements, and values that are none *)
Containers ==
    {Value(t, v) : t \in {"list", "tuple"},
                   v \in UNION {[1..n -> {"int", "str", "bool"}] : n \in 0..MaxElements}}
        \cup {Value("str", <<"str">>), Value("int", <<>>), NoneValue}

(* A class as a value: its content is its name. issubclass raises          *)
(* TypeError for a first argument that is no class.                        *)
Class(name) == Value("type", <<name>>)

(* SubclassValidator taking proper subclasses only *)
SubclassValidatorProper(cls, value) ==
    IF value.type # "type" THEN Validated("TypeError", 0)
    ELSE IF cls \notin Bases(value.v[1]) \ {value.v[1]} THEN Validated("TypeError", 0)
    ELSE Validated("", 0)

(* SubclassValidator.__call__ of subclass_of(cls) *)
SubclassValidator(cls, value) ==
    IF value.type # "type" THEN Validated("TypeError", 0)
    ELSE IF cls \notin Bases(value.v[1]) THEN Validated("TypeError", 0)
    ELSE Validated("", 0)

(* The logging module: the handlers created so far, the loggers by name    *)
(* (getLogger gives the same logger for the same name), and whether the    *)
(* warnings are captured. A handler is known by its place in `handlers`.   *)
LoggerNames == {"rootspace", "game", "py.warnings"}

NewRegistry ==
    [handlers |-> <<>>,
     loggers |-> [n \in LoggerNames |-> [level |-> 0, handlers |-> <<>>]],
     captured |-> FALSE,
     returned |-> <<>>]

(* logger.setLevel(level); logger.addHandler(hdlr): a handler the logger   *)
(* has already is not added again                                          *)
ConfiguredAnew(logger, level, hdlr) == [level |-> level, handlers |-> <<hdlr>>]

Configured(logger, level, hdlr) ==
    [level |-> level,
     handlers |-> IF hdlr \in Range(logger.handlers) THEN logger.handlers
                  ELSE Append(logger.handlers, hdlr)]

(* logger.log(levelno, ...): the number of handlers that emit the record.  *)
(* The logger drops a record below its level; a handler emits a record     *)
(* that is not below the level of the handler.                             *)
callHandlers(reg, name, levelno) ==
    IF levelno < reg.loggers[name].level THEN 0
    ELSE Cardinality({i \in DOMAIN reg.loggers[name].handlers :
                         reg.handlers[reg.loggers[name].handlers[i]].level <= levelno})

Loggers(project, py_warnings) == [raised |-> "", project |-> project, py_warnings |-> py_warnings]

(* The first half of configure_logger: the handler, a FileHandler when a   *)
(* path is given, and the project logger                                   *)
ProjectLogger(reg, name, log_level, log_path) ==
    [reg EXCEPT
        !.handlers = Append(@, [kind |-> IF log_path # "None" THEN "FileHandler" ELSE "StreamHandler",
                                level |-> log_level]),
        !.loggers[name] = Configured(@, log_level, Len(reg.handlers) + 1)]

(* configure_logger with a handler of its own for py.warnings *)
configure_loggerTwoHandlers(reg, name, log_level, log_path, with_warnings) ==
    IF log_path = "NoSuchDir/PATH"
    THEN [reg EXCEPT !.returned = Append(@, [raised |-> "OSError"])]
    ELSE IF with_warnings
    THEN [ProjectLogger(ProjectLogger(reg, name, log_level, log_path), "py.warnings", log_level, log_path)
             EXCEPT !.captured = TRUE, !.returned = Append(@, Loggers(name, "py.warnings"))]
    ELSE [ProjectLogger(reg, name, log_level, log_path)
             EXCEPT !.returned = Append(@, Loggers(name, "None"))]

(* FileHandler raises OSError for a path that cannot be opened, before     *)
(* any logger is looked up                                                 *)
configure_logger(reg, name, log_level, log_path, with_warnings) ==
    IF log_path = "NoSuchDir/PATH"
    THEN [reg EXCEPT !.returned = Append(@, [raised |-> "OSError"])]
    ELSE IF with_warnings
    THEN [ProjectLogger(reg, name, log_level, log_path)
             EXCEPT !.loggers["py.warnings"] = Configured(@, log_level, Len(reg.handlers) + 1),
                    !.captured = TRUE,
                    !.returned = Append(@, Loggers(name, "py.warnings"))]
    ELSE [ProjectLogger(reg, name, log_level, log_path)
             EXCEPT !.returned = Append(@, Loggers(name, "None"))]

----------------------------------------------------------------------------
(* State *)

VARIABLES
    doc,                \* the document the file was written from
    arg,                \* the argument of load
    file,               \* the file: lead, lines, body
    pc,                 \* the position of load and parse
    opened,             \* load opened the file itself
    parse_calls,        \* the number of calls of parse
    header_data,        \* the header text
    tell,               \* the position of the memory map
    tokens,             \* the token tree of the header
    vertex_data_type,
    index_data_type,
    vertex_attributes,
    result,             \* what load returned or raised
    invocation,         \* the options of the rootspace command
    m_pc,               \* the position of the command
    m_trace,            \* the calls the command made
    m_raised,           \* the exception the command ended with
    u_call,             \* the call of a utility function: its name and arguments
    u_rets,             \* what the call and the calls on its results returned or raised
    registry,           \* the handlers and loggers of the logging module
    configure,          \* the arguments of the calls of configure_logger
    demo,               \* a rendering demo: its position, its window, what it did
    batch               \* the grammar prototype: the files, the next one, the output

loader_vars ==
    <<doc, arg, file, pc, opened, parse_calls, header_data, tell, tokens,
      vertex_data_type, index_data_type, vertex_attributes, result>>
main_vars == <<invocation, m_pc, m_trace, m_raised>>
util_vars == <<u_call, u_rets>>
log_vars == <<registry, configure>>
tool_vars == <<util_vars, log_vars, demo, batch>>
vars == <<loader_vars, main_vars, tool_vars>>

NoInvocation ==
    [verbose |-> 0, debug |-> FALSE, profile |-> FALSE, log_file |-> "", version |-> FALSE,
     run_raises |-> FALSE]

LoaderStart(d, a) ==
    /\ doc = d
    /\ arg = a
    /\ file = FileOf(d)
    /\ opened = FALSE
    /\ parse_calls = 0
    /\ header_data = <<>>
    /\ tell = 0
    /\ tokens = NoTokens
    /\ vertex_data_type = ""
    /\ index_data_type = ""
    /\ vertex_attributes = <<>>
    /\ result = NoResult

MainStart(a) ==
    /\ invocation = a
    /\ m_trace = <<>>
    /\ m_raised = ""

NoCall == [op |-> "none"]

UtilStart(c) ==
    /\ u_call = c
    /\ u_rets = <<>>

(* No file is loaded, the command is not invoked, no utility is called *)
LoaderIdle == LoaderStart(EmptyDoc, Arg("NoneType", FALSE, <<>>)) /\ pc = "idle"

MainIdle == MainStart(NoInvocation) /\ m_pc = "idle"

UtilIdle == UtilStart(NoCall)

LogStart ==
    /\ registry = NewRegistry
    /\ configure = <<>>

(* main of a demo before its first statement. close_requested: the user   *)
(* asked to close the window; should_close: the flag of the window, which  *)
(* the library sets when it processes the events; height: of the           *)
(* framebuffer; frames: the frames rendered, counted up to MaxFrames;      *)
(* frame: the calls of the current frame, in the order they were made      *)
DemoStart(which, at) ==
    demo = [which |-> which, pc |-> at, close_requested |-> FALSE, should_close |-> FALSE,
            height |-> 480, frames |-> 0, observed |-> FALSE, late |-> FALSE,
            destroyed |-> 0, terminated |-> 0, frame |-> <<>>]

(* main of parse_ply.py in a directory whose `.ply` files are `files`,     *)
(* each written as what parseString does with its text: it returns, raises *)
(* ParseException, or raises another exception (ValueError)                *)
BatchStart(files, at) ==
    batch = [files |-> files, pc |-> at, next |-> 1, grammars |-> 0, attempted |-> <<>>, printed |-> <<>>]

ToolsIdle == UtilIdle /\ LogStart /\ DemoStart("none", "idle") /\ BatchStart(<<>>, "idle")

(* Every document is loaded from a str path; the marker documents are also *)
(* loaded through every other argument                                     *)
Init ==
    /\ \/ \E d \in MarkerDocs, a \in Args : LoaderStart(d, a)
       \/ \E d \in Docs : LoaderStart(d, Arg("str", FALSE, <<>>))
    /\ pc = "load"
    /\ MainIdle
    /\ ToolsIdle

Load ==
    /\ pc = "load"
    /\ IF load(arg) = "TypeError"
       THEN /\ result' = Raise("TypeError")
            /\ pc' = "done"
            /\ UNCHANGED <<opened, parse_calls>>
       ELSE /\ opened' = (load(arg) # "parse")
            /\ parse_calls' = parse_calls + 1
            /\ pc' = "extract"
            /\ UNCHANGED result
    /\ UNCHANGED <<doc, arg, file, header_data, tell, tokens, vertex_data_type, index_data_type,
                   vertex_attributes, main_vars, tool_vars>>

ExtractHeader ==
    /\ pc = "extract"
    /\ \E h \in {_extract_header(file)} :
           IF FileSize(file) = 0
           THEN result' = Raise("ValueError") /\ pc' = "done" /\ UNCHANGED <<header_data, tell>>
           ELSE IF h.raised # ""
           THEN result' = Raise(h.raised) /\ pc' = "done" /\ UNCHANGED <<header_data, tell>>
           ELSE header_data' = h.header_data /\ tell' = h.tell /\ pc' = "tokenize" /\ UNCHANGED result
    /\ UNCHANGED <<doc, arg, file, opened, parse_calls, tokens, vertex_data_type, index_data_type,
                   vertex_attributes, main_vars, tool_vars>>

TokenizeHeader ==
    /\ pc = "tokenize"
    /\ \E t \in {tokenize_header(header_data)} :
           IF t.raised # ""
           THEN result' = Raise(t.raised) /\ pc' = "done" /\ UNCHANGED tokens
           ELSE tokens' = t.tokens /\ pc' = "types" /\ UNCHANGED result
    /\ UNCHANGED <<doc, arg, file, opened, parse_calls, header_data, tell, vertex_data_type,
                   index_data_type, vertex_attributes, main_vars, tool_vars>>

DetermineTypes ==
    /\ pc = "types"
    /\ vertex_data_type' = DataTypes(tokens).vertex
    /\ index_data_type' = DataTypes(tokens).index
    /\ vertex_attributes' = _get_vertex_attributes(tokens, vertex_data_type', "vertex")
    /\ pc' = "data"
    /\ UNCHANGED <<doc, arg, file, opened, parse_calls, header_data, tell, tokens, result, main_vars, tool_vars>>

ParseAsciiData ==
    /\ pc = "data"
    /\ tokens.format.file_type = "ASCII"
    /\ result' = ParseData(tokens, file, tell, vertex_data_type, index_data_type, vertex_attributes)
    /\ pc' = "done"
    /\ UNCHANGED <<doc, arg, file, opened, parse_calls, header_data, tell, tokens, vertex_data_type,
                   index_data_type, vertex_attributes, main_vars, tool_vars>>

ParseBinaryData ==
    /\ pc = "data"
    /\ tokens.format.file_type # "ASCII"
    /\ result' = ParseData(tokens, file, tell, vertex_data_type, index_data_type, vertex_attributes)
    /\ pc' = "done"
    /\ UNCHANGED <<doc, arg, file, opened, parse_calls, header_data, tell, tokens, vertex_data_type,
                   index_data_type, vertex_attributes, main_vars, tool_vars>>

Next == Load \/ ExtractHeader \/ TokenizeHeader \/ DetermineTypes \/ ParseAsciiData \/ ParseBinaryData

Spec == Init /\ [][Next]_vars

(* The rootspace command, once per invocation *)
InitMain ==
    /\ LoaderIdle
    /\ \E a \in Invocations : MainStart(a)
    /\ m_pc = "start"
    /\ ToolsIdle

Invoke ==
    /\ m_pc = "start"
    /\ m_trace' = command(invocation).trace
    /\ m_raised' = command(invocation).raised
    /\ m_pc' = "exit"
    /\ UNCHANGED <<invocation, loader_vars, tool_vars>>

NextMain == Invoke

SpecMain == InitMain /\ [][NextMain]_vars

(* The utility functions, one call at a time; a function that maps its      *)
(* results to its arguments is called again on what it returned             *)
Calls ==
    [op : {"get_log_level"}, verbosity : (0 - MaxVerbose)..MaxVerbose]
        \cup [op : {"to_uuid"}, value : UuidArguments]
        \cup [op : {"underscore_to_camelcase"}, value : {Value("str", name) : name \in Names}]
        \cup [op : {"iterable_of"}, cls_container : {"list", "tuple", "int", "object"},
               cls_element : {"int", "str", "bool", "object"}, value : Containers]
        \cup [op : {"subclass_of"}, cls : {"int", "bool", "str", "PurePath", "object"},
               instance : {Value("Attributes", <<"str">>)},
               value : {Class(c) : c \in {"int", "bool", "str", "Path", "PosixPath", "object"}}
                           \cup {Value("int", <<"42">>), NoneValue}]

InitUtil ==
    /\ LoaderIdle
    /\ MainIdle
    /\ \E c \in Calls : UtilStart(c)
    /\ LogStart
    /\ DemoStart("none", "idle")
    /\ BatchStart(<<>>, "idle")

GetLogLevel ==
    /\ u_call.op = "get_log_level"
    /\ u_rets = <<>>
    /\ u_rets' = <<get_log_level(u_call.verbosity)>>
    /\ UNCHANGED <<u_call, loader_vars, main_vars, log_vars, demo, batch>>

(* to_uuid on the argument, then on what it returned *)
ToUuid ==
    /\ u_call.op = "to_uuid"
    /\ Len(u_rets) < 2
    /\ u_rets # <<>> => u_rets[1].raised = ""
    /\ u_rets' = Append(u_rets, to_uuid(IF u_rets = <<>> THEN u_call.value ELSE u_rets[1].value))
    /\ UNCHANGED <<u_call, loader_vars, main_vars, log_vars, demo, batch>>

UnderscoreToCamelcase ==
    /\ u_call.op = "underscore_to_camelcase"
    /\ u_rets = <<>>
    /\ u_rets' = <<Return(Value("str", underscore_to_camelcase(u_call.value.v)))>>
    /\ UNCHANGED <<u_call, loader_vars, main_vars, log_vars, demo, batch>>

(* camelcase_to_underscore on the name underscore_to_camelcase returned *)
CamelcaseToUnderscore ==
    /\ u_call.op = "underscore_to_camelcase"
    /\ Len(u_rets) = 1
    /\ u_rets' = Append(u_rets, Return(Value("str", camelcase_to_underscore(u_rets[1].value.v))))
    /\ UNCHANGED <<u_call, loader_vars, main_vars, log_vars, demo, batch>>

(* The validator iterable_of returned, called on a value *)
IterableOf ==
    /\ u_call.op = "iterable_of"
    /\ u_rets = <<>>
    /\ u_rets' = <<IterableValidator(u_call.cls_container, u_call.cls_element, u_call.value)>>
    /\ UNCHANGED <<u_call, loader_vars, main_vars, log_vars, demo, batch>>

(* The validator subclass_of returned, called on a value *)
SubclassOf ==
    /\ u_call.op = "subclass_of"
    /\ u_rets = <<>>
    /\ u_rets' = <<SubclassValidator(u_call.cls, u_call.value)>>
    /\ UNCHANGED <<u_call, loader_vars, main_vars, log_vars, demo, batch>>

NextUtil ==
    \/ GetLogLevel
    \/ ToUuid
    \/ UnderscoreToCamelcase
    \/ CamelcaseToUnderscore
    \/ IterableOf
    \/ SubclassOf

SpecUtil == InitUtil /\ [][NextUtil]_vars

(* Calls of configure_logger, one after the other in one process *)
InitLog ==
    /\ LoaderIdle
    /\ MainIdle
    /\ UtilIdle
    /\ LogStart
    /\ DemoStart("none", "idle")
    /\ BatchStart(<<>>, "idle")

ConfigureLogger ==
    /\ Len(configure) < MaxCalls
    /\ \E name \in LoggerNames \ {"py.warnings"}, log_level \in {logging.ERROR, logging.DEBUG},
          log_path \in {"None", "PATH", "NoSuchDir/PATH"}, with_warnings \in BOOLEAN :
           /\ registry' = configure_logger(registry, name, log_level, log_path, with_warnings)
           /\ configure' = Append(configure, [name |-> name, log_level |-> log_level,
                                              log_path |-> log_path, with_warnings |-> with_warnings])
    /\ UNCHANGED <<loader_vars, main_vars, util_vars, demo, batch>>

NextLog == ConfigureLogger

SpecLog == InitLog /\ [][NextLog]_vars

(* The rendering demos glfw_example1 and glfw_example2 *)
InitDemo ==
    /\ LoaderIdle
    /\ MainIdle
    /\ UtilIdle
    /\ LogStart
    /\ \E which \in {"glfw_example1", "glfw_example2"} : DemoStart(which, "init")
    /\ BatchStart(<<>>, "idle")

Others == <<loader_vars, main_vars, util_vars, log_vars, batch>>

(* if not glfw.init(): return *)
GlfwInit ==
    /\ demo.pc = "init"
    /\ \E ok \in BOOLEAN : demo' = [demo EXCEPT !.pc = IF ok THEN "create_window" ELSE "exit"]
    /\ UNCHANGED Others

(* window = glfw.create_window(...); if not window: glfw.terminate(); return *)
CreateWindow ==
    /\ demo.pc = "create_window"
    /\ \E window \in BOOLEAN :
           demo' = IF window THEN [demo EXCEPT !.pc = "setup"]
                   ELSE [demo EXCEPT !.pc = "exit", !.terminated = @ + 1]
    /\ UNCHANGED Others

(* The context, the shaders and the buffers; an OpenGL call that fails raises *)
Setup ==
    /\ demo.pc = "setup"
    /\ \E ok \in BOOLEAN : demo' = [demo EXCEPT !.pc = IF ok THEN "while" ELSE "raised"]
    /\ UNCHANGED Others

(* The loop test going through the loop once more after the close request *)
WhileLate ==
    /\ demo.pc = "while"
    /\ demo' = IF demo.should_close /\ demo.observed THEN [demo EXCEPT !.pc = "destroy_window"]
               ELSE [demo EXCEPT !.observed = demo.should_close, !.pc = "render"]
    /\ UNCHANGED Others

(* while not glfw.window_should_close(window) *)
While ==
    /\ demo.pc = "while"
    /\ demo' = IF demo.should_close THEN [demo EXCEPT !.observed = TRUE, !.pc = "destroy_window"]
               ELSE [demo EXCEPT !.pc = "render"]
    /\ UNCHANGED Others

GlCall(op, argument) == [op |-> op, argument |-> argument]

(* The frame drawing before it clears *)
renderDrawFirst(which) ==
    (IF which = "glfw_example1" THEN <<GlCall("glViewport", "width, height")>>
     ELSE <<GlCall("glClearColor", "0, 0, 0, 1")>>)
    \o <<GlCall("glUseProgram", "shader_program"), GlCall("glBindVertexArray", "vao")>>
    \o (IF which = "glfw_example1" THEN <<GlCall("glUniformMatrix4fv", "p @ v @ m")>> ELSE <<>>)
    \o <<GlCall("glDrawArrays", "GL_TRIANGLES, 0, 3"),
         GlCall("glClear", IF which = "glfw_example1" THEN "GL_COLOR_BUFFER_BIT"
                           ELSE "GL_COLOR_BUFFER_BIT | GL_DEPTH_BUFFER_BIT"),
         GlCall("glBindVertexArray", "0"), GlCall("glUseProgram", "0")>>

(* The OpenGL calls of a frame: the loop body of glfw_example1 up to the   *)
(* swap, and render of glfw_example2                                       *)
render(which) ==
    (IF which = "glfw_example1" THEN <<GlCall("glViewport", "width, height")>>
     ELSE <<GlCall("glClearColor", "0, 0, 0, 1")>>)
    \o <<GlCall("glClear", IF which = "glfw_example1" THEN "GL_COLOR_BUFFER_BIT"
                           ELSE "GL_COLOR_BUFFER_BIT | GL_DEPTH_BUFFER_BIT"),
         GlCall("glUseProgram", "shader_program"), GlCall("glBindVertexArray", "vao")>>
    \o (IF which = "glfw_example1" THEN <<GlCall("glUniformMatrix4fv", "p @ v @ m")>> ELSE <<>>)
    \o <<GlCall("glDrawArrays", "GL_TRIANGLES, 0, 3"),
         GlCall("glBindVertexArray", "0"), GlCall("glUseProgram", "0")>>

(* The frame: glfw_example1 divides the width by the height of the         *)
(* framebuffer, which is 0 while the window is minimised                   *)
Render ==
    /\ demo.pc = "render"
    /\ demo' = IF demo.which = "glfw_example1" /\ demo.height = 0
               THEN [demo EXCEPT !.frame = <<>>, !.pc = "raised"]
               ELSE [demo EXCEPT !.frames = IF @ < MaxFrames THEN @ + 1 ELSE @,
                                 !.late = demo.observed,
                                 !.frame = render(demo.which),
                                 !.pc = "swap_buffers"]
    /\ UNCHANGED Others

SwapBuffers ==
    /\ demo.pc = "swap_buffers"
    /\ demo' = [demo EXCEPT !.frame = Append(@, GlCall("glfw.swap_buffers", "window")),
                            !.pc = "poll_events"]
    /\ UNCHANGED Others

(* glfw.poll_events() processes the close request and sets the window's flag *)
PollEvents ==
    /\ demo.pc = "poll_events"
    /\ demo' = [demo EXCEPT !.should_close = @ \/ demo.close_requested,
                            !.frame = Append(@, GlCall("glfw.poll_events", "")),
                            !.pc = "while"]
    /\ UNCHANGED Others

DestroyWindow ==
    /\ demo.pc = "destroy_window"
    /\ demo' = [demo EXCEPT !.destroyed = @ + 1, !.pc = "terminate"]
    /\ UNCHANGED Others

Terminate ==
    /\ demo.pc = "terminate"
    /\ demo' = [demo EXCEPT !.terminated = @ + 1, !.pc = "exit"]
    /\ UNCHANGED Others

(* The user: asks to close the window, minimises and restores it *)
RequestClose ==
    /\ demo.pc \in {"setup", "while", "render", "swap_buffers", "poll_events"}
    /\ ~demo.close_requested
    /\ demo' = [demo EXCEPT !.close_requested = TRUE]
    /\ UNCHANGED Others

Resize ==
    /\ demo.pc \in {"setup", "while", "render", "swap_buffers", "poll_events"}
    /\ demo' = [demo EXCEPT !.height = IF @ = 0 THEN 480 ELSE 0]
    /\ UNCHANGED Others

Program ==
    \/ GlfwInit
    \/ CreateWindow
    \/ Setup
    \/ While
    \/ Render
    \/ SwapBuffers
    \/ PollEvents
    \/ DestroyWindow
    \/ Terminate

NextDemo == Program \/ RequestClose \/ Resize

(* The process of the demo keeps running: every call of the library returns *)
SpecDemo == InitDemo /\ [][NextDemo]_vars /\ WF_vars(Program)

(* The directory-scanning grammar prototype contrib/stanford-ply/parse_ply.py *)
InitBatch ==
    /\ LoaderIdle
    /\ MainIdle
    /\ UtilIdle
    /\ LogStart
    /\ DemoStart("none", "idle")
    /\ \E files \in UNION {[1..n -> {"tokens", "ParseException", "ValueError"}] : n \in 0..MaxFiles} :
           BatchStart(files, "for")

(* What the except clause prints for the file *)
Diagnostic(file_path) ==
    <<[file_path |-> file_path, printed |-> "e.line"], [file_path |-> file_path, printed |-> "caret"],
      [file_path |-> file_path, printed |-> "e"]>>

(* The body of the loop leaving the loop at a mismatch *)
ParseFileOrStop ==
    /\ batch.pc = "for"
    /\ batch.next <= Len(batch.files)
    /\ batch' = [batch EXCEPT
           !.grammars = @ + 1,
           !.attempted = Append(@, batch.next),
           !.next = @ + 1,
           !.printed = @ \o (CASE batch.files[batch.next] = "tokens" ->
                                     <<[file_path |-> batch.next, printed |-> "tokens.dump()"]>>
                               [] batch.files[batch.next] = "ParseException" -> Diagnostic(batch.next)
                               [] OTHER -> <<>>),
           !.pc = CASE batch.files[batch.next] = "tokens" -> "for"
                    [] batch.files[batch.next] = "ParseException" -> "exit"
                    [] OTHER -> "raised"]
    /\ UNCHANGED <<loader_vars, main_vars, util_vars, log_vars, demo>>

(* The body of the loop for the next file: a new grammar, the parse, the   *)
(* dump of the tokens or the diagnostic; any other exception leaves main   *)
ParseFile ==
    /\ batch.pc = "for"
    /\ batch.next <= Len(batch.files)
    /\ batch' = [batch EXCEPT
           !.grammars = @ + 1,
           !.attempted = Append(@, batch.next),
           !.next = @ + 1,
           !.printed = @ \o (CASE batch.files[batch.next] = "tokens" ->
                                     <<[file_path |-> batch.next, printed |-> "tokens.dump()"]>>
                               [] batch.files[batch.next] = "ParseException" -> Diagnostic(batch.next)
                               [] OTHER -> <<>>),
           !.pc = IF batch.files[batch.next] \in {"tokens", "ParseException"} THEN "for" ELSE "raised"]
    /\ UNCHANGED <<loader_vars, main_vars, util_vars, log_vars, demo>>

(* The generator of the paths is exhausted *)
EndOfFiles ==
    /\ batch.pc = "for"
    /\ batch.next > Len(batch.files)
    /\ batch' = [batch EXCEPT !.pc = "exit"]
    /\ UNCHANGED <<loader_vars, main_vars, util_vars, log_vars, demo>>

NextBatch == ParseFile \/ EndOfFiles

SpecBatch == InitBatch /\ [][NextBatch]_vars

----------------------------------------------------------------------------
(* Properties of the loader *)

(* The declarations of a document, read off the document itself *)
PropsNamed(d, name) ==
    Concat([e \in DOMAIN d.elements |->
        IF d.elements[e].name = name THEN d.elements[e].props ELSE <<>>])

DeclaredCodes(d, name) ==
    {data_type_map[PropsNamed(d, name)[p].data_type] : p \in DOMAIN PropsNamed(d, name)}

(* The order b < B < h < H < i < I < f < d *)
Rank == [b |-> 1, B |-> 2, h |-> 3, H |-> 4, i |-> 5, I |-> 6, f |-> 7, d |-> 8]

Highest(codes) == CHOOSE t \in codes : \A u \in codes : Rank[u] <= Rank[t]

PlyAtOffsetZero(d) == ~d.empty /\ d.lead = 0 /\ begin_header_keyword \notin d.caps

EndHeaderOccurs(d) ==
    ~d.empty /\ ((d.terminated /\ end_header_keyword \notin d.caps) \/ d.comment = "end_header")

(* A document with both markers in place, an ASCII header and a body that *)
(* matches the header, with at least one record per element and numbers   *)
(* every type code can hold                                               *)
WellFormed(d) ==
    /\ PlyAtOffsetZero(d) /\ d.terminated /\ end_header_keyword \notin d.caps
    /\ d.comment \in {"none", "text"}
    /\ d.defect = "none" /\ d.base = 0
    /\ \A e \in DOMAIN d.elements : d.elements[e].count >= 1

(* A vertex element of simple properties followed by a face element of one list property *)
VertexThenFace(d) ==
    /\ ~d.empty
    /\ Len(d.elements) = 2
    /\ d.elements[1].name = "vertex"
    /\ \A p \in DOMAIN d.elements[1].props : ~d.elements[1].props[p].list
    /\ d.elements[2].name = "face"
    /\ Len(d.elements[2].props) = 1
    /\ d.elements[2].props[1].list

VertexNumbers(d) ==
    LET k == Len(d.elements[1].props)
    IN  [j \in 1..(d.elements[1].count * k) |-> Val(d, 1, ((j - 1) \div k) + 1, ((j - 1) % k) + 1)]

FaceListValues(d) == Concat([r \in 1..d.elements[2].count |-> ListVals(d, 2, r)])

AcceptedArgs ==
    {Arg("str", FALSE, <<>>), Arg("bytes", FALSE, <<>>), Arg("PosixPath", FALSE, <<>>),
     Arg("BufferedReader", TRUE, <<"r", "b">>), Arg("BufferedRandom", TRUE, <<"r", "b", "+">>)}

(* C2: load hands a str path, a bytes path, a pathlib.Path and an object whose *)
(* mode contains "b" to parse, once, opening the file itself for the three      *)
(* paths; every other argument ends in TypeError with no file opened and parse  *)
(* not called.                                                                 *)
C2_LoadDispatch ==
    /\ parse_calls <= 1
    /\ pc # "load" =>
          IF arg \in AcceptedArgs
          THEN parse_calls = 1 /\ (opened <=> arg.type \in {"str", "bytes", "PosixPath"})
          ELSE pc = "done" /\ result.kind = "TypeError" /\ ~opened /\ parse_calls = 0

C2_Witness ==
    pc = "done" /\ arg.type = "TextIOWrapper" /\ result.kind = "TypeError" /\ parse_calls = 0

(* C3, as claimed: parse fails with ValueError exactly when `ply` is not at *)
(* offset 0 or `end_header` does not occur in the file.                     *)
C3_ValueErrorIffMarkers ==
    (pc = "done" /\ parse_calls = 1) =>
        (IsValueError(result.kind) <=> (~PlyAtOffsetZero(doc) \/ ~EndHeaderOccurs(doc)))

NonAsciiHeader(d) == d.comment = "latin1"

(* C3, amended: parse fails with a ValueError before any header text is     *)
(* tokenized exactly when `ply` is not at offset 0, `end_header` does not    *)
(* occur in the file, or the header bytes are not ASCII; no Mesh is returned *)
(* and nothing was tokenized.                                               *)
C3_EarlyValueError ==
    (pc = "done" /\ parse_calls = 1) =>
        ((IsValueError(result.kind) /\ header_data = <<>>)
            <=> (~PlyAtOffsetZero(doc) \/ ~EndHeaderOccurs(doc) \/ NonAsciiHeader(doc)))

C3_Witness ==
    /\ pc = "done" /\ parse_calls = 1 /\ result.kind = "ValueError"
    /\ doc.lead = 1 /\ EndHeaderOccurs(doc) /\ header_data = <<>> /\ tokens = NoTokens

(* C4, as claimed: a well-formed binary file is parsed without error into a *)
(* Mesh whose index buffer is the single value 0.                           *)
C4_BinaryPlaceholderIndex ==
    (pc = "done" /\ parse_calls = 1 /\ WellFormed(doc) /\ doc.format # "ascii") =>
        (result.kind = "Mesh" /\ result.index = <<0>>)

(* C5: the vertex aggregate type is the declared vertex type of the highest *)
(* precedence, and "f" when no vertex property is declared.                 *)
C5_VertexAggregateType ==
    vertex_data_type # "" =>
        IF DeclaredCodes(doc, "vertex") = {}
        THEN vertex_data_type = "f"
        ELSE vertex_data_type = Highest(DeclaredCodes(doc, "vertex"))

C5_Witness ==
    /\ pc = "done"
    /\ PropsNamed(doc, "vertex") = <<SimpleDecl("char", "x"), SimpleDecl("float", "q")>>
    /\ vertex_data_type = "f"

(* C6: the index aggregate type is one of B, H, I: the face type of the    *)
(* highest precedence when that is one of the three, and I otherwise or     *)
(* when no face property is declared.                                       *)
C6_IndexAggregateType ==
    index_data_type # "" =>
        /\ index_data_type \in {"B", "H", "I"}
        /\ IF DeclaredCodes(doc, "face") = {}
           THEN index_data_type = "I"
           ELSE IF Highest(DeclaredCodes(doc, "face")) \in {"B", "H", "I"}
           THEN index_data_type = Highest(DeclaredCodes(doc, "face"))
           ELSE index_data_type = "I"

C6_Witness ==
    /\ pc = "done" /\ index_data_type = "H"
    /\ DeclaredCodes(doc, "face") = {"H"}

(* C7, as claimed: a face list property whose index type (the first type *)
(* after `list`) is double makes the index aggregate type I.             *)
C7_IndexTypeDouble ==
    (index_data_type # ""
        /\ \E p \in DOMAIN PropsNamed(doc, "face") :
              PropsNamed(doc, "face")[p].list /\ PropsNamed(doc, "face")[p].index_type = "double")
    => index_data_type = "I"

(* C7, amended: a face list property whose data type (the second type     *)
(* after `list`) is double makes the index aggregate type I, whatever the *)
(* index type of the list is.                                             *)
C7_DataTypeDouble ==
    (index_data_type # ""
        /\ \E p \in DOMAIN PropsNamed(doc, "face") :
              PropsNamed(doc, "face")[p].list
              /\ data_type_map[PropsNamed(doc, "face")[p].data_type] = "d")
    => index_data_type = "I"

C7_Witness ==
    /\ pc = "done" /\ index_data_type = "I"
    /\ PropsNamed(doc, "face") = <<ListDecl("uchar", "float64", "vertex_index")>>

(* C8, as claimed: the Mesh of a well-formed ASCII file has as many       *)
(* attributes as the vertex element declares properties.                  *)
C8_AttributePerProperty ==
    (pc = "done" /\ result.kind = "Mesh" /\ WellFormed(doc)) =>
        Len(result.attributes) = Len(PropsNamed(doc, "vertex"))

GroupNames(element) == {element.properties[g].name : g \in DOMAIN element.properties}

(* C8, amended: the Mesh of a well-formed ASCII file has one attribute per *)
(* distinct property group name of each vertex element.                    *)
C8_AttributePerGroupName ==
    (pc = "done" /\ result.kind = "Mesh" /\ WellFormed(doc)) =>
        Len(result.attributes) =
            SumSeq([e \in DOMAIN tokens.elements |->
                IF tokens.elements[e].name = "vertex"
                THEN Cardinality(GroupNames(tokens.elements[e]))
                ELSE 0])

C8_Witness ==
    /\ pc = "done" /\ result.kind = "Mesh" /\ WellFormed(doc)
    /\ PropsNamed(doc, "vertex") = PropertyLists.xyz
    /\ Len(result.attributes) = 1

(* C9, as claimed: a file that differs from an accepted file only in the  *)
(* letter case of reserved keywords is accepted and yields the same Mesh. *)
C9_KeywordsCaseInsensitive ==
    (pc = "done" /\ parse_calls = 1 /\ parse(FileOf([doc EXCEPT !.caps = {}])).kind = "Mesh") =>
        result = parse(FileOf([doc EXCEPT !.caps = {}]))

(* The documents that declare exactly one vertex element, and that element *)
VertexElements(d) == {e \in DOMAIN d.elements : d.elements[e].name = "vertex"}

TheVertexElement(d) == d.elements[CHOOSE e \in VertexElements(d) : TRUE]

(* C19, as claimed: in the Mesh of an accepted file that declares one       *)
(* vertex element the stride of every attribute is the number of properties *)
(* of the vertex element, the number of values of a vertex record, so that  *)
(* data holds vertex count times stride values, also when several           *)
(* properties fall into the same catch-all group.                           *)
C19_StrideIsRecordWidth ==
    (pc = "done" /\ result.kind = "Mesh" /\ Cardinality(VertexElements(doc)) = 1) =>
        \A a \in DOMAIN result.attributes :
            /\ result.attributes[a].stride = Len(TheVertexElement(doc).props)
            /\ Len(result.data) = TheVertexElement(doc).count * result.attributes[a].stride

(* C20, as claimed: the attributes of a Mesh tile the vertex record: the    *)
(* first starts at 0, each later one starts where the one before it ends,   *)
(* all carry the same stride and the vertex data type, and the last one     *)
(* ends at the stride.                                                      *)
C20_AttributesTile ==
    (pc = "done" /\ result.kind = "Mesh" /\ result.attributes # <<>>) =>
        /\ result.attributes[1].start_index = 0
        /\ \A a \in 2..Len(result.attributes) :
               result.attributes[a].start_index
                   = result.attributes[a - 1].start_index + result.attributes[a - 1].components
        /\ \A a \in DOMAIN result.attributes :
               /\ result.attributes[a].stride = result.attributes[1].stride
               /\ result.attributes[a].data_type = result.data_type
        /\ result.attributes[Len(result.attributes)].start_index
               + result.attributes[Len(result.attributes)].components
                   = result.attributes[1].stride

(* C22, as claimed: the header handed to the grammar runs from offset 0 to  *)
(* the end of the first `end_header` of the file, the read position is      *)
(* moved there, and when that `end_header` stands in a comment line the     *)
(* header ends there and the body is read from that position.               *)
C22_FirstEndHeader ==
    header_data # <<>> =>
        /\ header_data = Slice(file, 0, find(file, end_header_keyword) + 1)
        /\ tell = find(file, end_header_keyword) + 1
        /\ (doc.comment = "end_header" /\ pc = "done") =>
               /\ CaselessKeyword(header_data[Len(header_data)].kw, comment_keyword)
               /\ tokens # NoTokens
               /\ result = ParseData(tokens, file, tell, vertex_data_type, index_data_type,
                                     vertex_attributes)

----------------------------------------------------------------------------
(* Properties of the command *)

Ops(trace) == [i \in DOMAIN trace |-> trace[i].op]

(* C10, as claimed: an invocation without --version computes the log level, *)
(* configures logging, constructs the Loop, runs it once and, after the run  *)
(* returned, shuts logging down, in this order.                             *)
C10_BootstrapOrder ==
    (m_pc = "exit" /\ ~invocation.version) =>
        LET run == IF invocation.profile THEN "cProfile.runctx" ELSE "loop.run"
            before == <<"get_log_level", "configure_logger", "Loop", run>>
        IN  IF invocation.run_raises
            THEN Ops(m_trace) = before
            ELSE Ops(m_trace) = Append(before, "logging.shutdown")

----------------------------------------------------------------------------
(* Properties of the utility functions *)

Returned(op) == u_call.op = op /\ u_rets # <<>>

(* C11: get_log_level returns for every integer and never raises: ERROR for *)
(* a verbosity of 0 or less, WARN for 1, INFO for 2, DEBUG for 3 or more,   *)
(* and the level of a verbosity is never above the level of the one before  *)
C11_LogLevelTotal ==
    Returned("get_log_level") =>
        /\ u_rets[1].raised = ""
        /\ u_rets[1].level =
               (IF u_call.verbosity <= 0 THEN logging.ERROR
                ELSE IF u_call.verbosity = 1 THEN logging.WARN
                ELSE IF u_call.verbosity = 2 THEN logging.INFO
                ELSE logging.DEBUG)
        /\ u_rets[1].level <= get_log_level(u_call.verbosity - 1).level
        /\ get_log_level(u_call.verbosity - 1).raised = ""

(* get_log_level returned for a negative verbosity *)
C11_Witness ==
    /\ Returned("get_log_level")
    /\ u_call.verbosity < 0
    /\ u_rets[1] = [raised |-> "", level |-> logging.ERROR]

(* C12: to_uuid maps what it returned to itself, for every text of a UUID   *)
(* and every UUID value; None gives None; a value of any other class raises *)
(* TypeError                                                                *)
C12_ToUuidIdempotent ==
    Returned("to_uuid") =>
        /\ Len(u_rets) = 2 => u_rets[2] = u_rets[1]
        /\ u_call.value.type = "UUID" => u_rets[1] = Return(u_call.value)
        /\ u_call.value.type = "NoneType" => u_rets[1] = Return(NoneValue)
        /\ u_call.value.type = "str" =>
               \/ u_rets[1].raised = "ValueError"
               \/ u_rets[1].raised = "" /\ u_rets[1].value.type = "UUID"
        /\ u_call.value.type \notin {"UUID", "NoneType", "str"} => u_rets[1].raised = "TypeError"

(* to_uuid was called on the UUID it made of a text in braces *)
C12_Witness ==
    /\ Returned("to_uuid")
    /\ u_call.value = Value("str", <<"{", "0000000A", "-", "00000000", "-", "00000000", "-", "0000000A", "}">>)
    /\ Len(u_rets) = 2
    /\ u_rets[2] = Return(Value("UUID", <<"0000000a", "00000000", "00000000", "0000000a">>))

(* A name of non-empty lower-case words joined by single underscores *)
LowercaseWords(name) ==
    /\ name # <<>>
    /\ \A i \in DOMAIN split(name) : split(name)[i] # <<>>

(* Two words next to each other that are both a single letter *)
AdjacentLetters(name) ==
    \E i \in 1..(Len(split(name)) - 1) : Len(split(name)[i]) = 1 /\ Len(split(name)[i + 1]) = 1

RoundTrip == u_call.op = "underscore_to_camelcase" /\ Len(u_rets) = 2

(* C13, as stated: camelcase_to_underscore gives back every name of         *)
(* non-empty lower-case words joined by single underscores                  *)
C13_Original ==
    RoundTrip /\ LowercaseWords(u_call.value.v) => u_rets[2].value = u_call.value

(* C13: camelcase_to_underscore gives back every name of non-empty          *)
(* lower-case words joined by single underscores in which no two adjacent   *)
(* words are both a single letter                                           *)
C13_RoundTrip ==
    RoundTrip /\ LowercaseWords(u_call.value.v) /\ ~AdjacentLetters(u_call.value.v)
        => u_rets[2].value = u_call.value

(* A name with a single-letter word next to a longer one came back *)
C13_Witness ==
    /\ RoundTrip
    /\ u_call.value.v = <<"a", "b", "_", "b">>
    /\ u_rets[1].value.v = <<"A", "b", "B">>
    /\ u_rets[2].value = u_call.value

(* C14: the validator of iterable_of(C, E) returns exactly when the value   *)
(* is an instance of C whose elements are all instances of E, an empty one  *)
(* included, and raises TypeError otherwise; a value that is no instance of *)
(* C is rejected with none of its elements taken                            *)
C14_IterableOf ==
    Returned("iterable_of") =>
        /\ u_rets[1].raised \in {"", "TypeError"}
        /\ u_rets[1].raised = "" <=>
               /\ isinstance(u_call.value, {u_call.cls_container})
               /\ Iterable(u_call.value)
               /\ \A i \in DOMAIN u_call.value.v :
                      isinstance(Value(u_call.value.v[i], <<>>), {u_call.cls_element})
        /\ ~isinstance(u_call.value, {u_call.cls_container}) => u_rets[1].iterated = 0

(* iterable_of(list, int) rejected a list at its second element, a str *)
C14_Witness ==
    /\ Returned("iterable_of")
    /\ u_call.cls_container = "list" /\ u_call.cls_element = "int"
    /\ u_call.value = Value("list", <<"int", "str", "int">>)
    /\ u_rets[1] = Validated("TypeError", 2)

(* C15: the validator of subclass_of(T) returns for T and for every         *)
(* subclass of T, raises TypeError for every class that is neither a        *)
(* subclass nor a base of T, and leaves the instance and the value as they  *)
(* were                                                                     *)
C15_SubclassOf ==
    /\ [](Returned("subclass_of") /\ u_call.value.type = "type" =>
              /\ u_call.cls \in Bases(u_call.value.v[1]) => u_rets[1].raised = ""
              /\ u_call.cls \notin Bases(u_call.value.v[1])
                     /\ u_call.value.v[1] \notin Bases(u_call.cls) => u_rets[1].raised = "TypeError")
    /\ [][u_call.op = "subclass_of" =>
              u_call'.instance = u_call.instance /\ u_call'.value = u_call.value]_vars

(* subclass_of(int) accepted int itself *)
C15_Witness ==
    /\ Returned("subclass_of")
    /\ u_call.cls = "int"
    /\ u_call.value = Class("int")
    /\ u_rets[1].raised = ""

----------------------------------------------------------------------------
(* Properties of configure_logger *)

(* The loggers the handler hdlr is attached to *)
AttachedTo(reg, hdlr) == {n \in LoggerNames : hdlr \in Range(reg.loggers[n].handlers)}

(* C16: a call of configure_logger that returns creates exactly one handler  *)
(* and attaches it to the logger `name`; with with_warnings the same handler *)
(* is attached to "py.warnings", which gets the same level and is the second *)
(* member of the pair; without, "py.warnings" is as it was and the second    *)
(* member is None                                                            *)
C16_OneHandler ==
    [][configure' # configure /\ registry'.returned[Len(configure')].raised = "" =>
           /\ Len(registry'.handlers) = Len(registry.handlers) + 1
           /\ SubSeq(registry'.handlers, 1, Len(registry.handlers)) = registry.handlers
           /\ registry'.returned[Len(configure')].project = configure'[Len(configure')].name
           /\ registry'.loggers[configure'[Len(configure')].name].level
                  = configure'[Len(configure')].log_level
           /\ IF configure'[Len(configure')].with_warnings
              THEN /\ AttachedTo(registry', Len(registry'.handlers))
                          = {configure'[Len(configure')].name, "py.warnings"}
                   /\ registry'.loggers["py.warnings"].level = configure'[Len(configure')].log_level
                   /\ registry'.returned[Len(configure')].py_warnings = "py.warnings"
              ELSE /\ AttachedTo(registry', Len(registry'.handlers)) = {configure'[Len(configure')].name}
                   /\ registry'.loggers["py.warnings"] = registry.loggers["py.warnings"]
                   /\ registry'.returned[Len(configure')].py_warnings = "None"]_vars

(* After a call with warnings and a call without: two handlers, the first   *)
(* on both loggers, the second on the project logger only                   *)
C16_Witness ==
    /\ Len(configure) = 2
    /\ configure[1].with_warnings /\ ~configure[2].with_warnings
    /\ configure[1].name = "rootspace" /\ configure[2].name = "rootspace"
    /\ Len(registry.handlers) = 2
    /\ registry.loggers["rootspace"].handlers = <<1, 2>>
    /\ registry.loggers["py.warnings"].handlers = <<1>>
    /\ registry.returned[2] = Loggers("rootspace", "None")

(* The calls of configure_logger so far that returned *)
Returns == {i \in DOMAIN configure : registry.returned[i].raised = ""}

(* Each logger holds one handler per call that named it, py.warnings one per *)
(* call with warnings                                                        *)
HandlerPerCall ==
    /\ \A n \in LoggerNames \ {"py.warnings"} :
           Len(registry.loggers[n].handlers) = Cardinality({i \in Returns : configure[i].name = n})
    /\ Len(registry.loggers["py.warnings"].handlers)
           = Cardinality({i \in Returns : configure[i].with_warnings})
    /\ \A n \in LoggerNames :
           Cardinality(Range(registry.loggers[n].handlers)) = Len(registry.loggers[n].handlers)

(* C23, as claimed: no handler is ever removed, each logger holds one handler *)
(* per call, and a record the logger lets through is emitted once per call.   *)
C23_EmittedPerCall ==
    /\ HandlerPerCall
    /\ \A n \in LoggerNames \ {"py.warnings"}, levelno \in Range(logging) :
           (registry.loggers[n].handlers # <<>> /\ levelno >= registry.loggers[n].level) =>
               callHandlers(registry, n, levelno) = Cardinality({i \in Returns : configure[i].name = n})

(* C23: no handler is ever removed, each logger holds one handler per call    *)
(* that returned, and a record the logger lets through is emitted once per    *)
(* call whose level is not above the level of the record                      *)
C23_EmittedPerLevel ==
    /\ HandlerPerCall
    /\ \A n \in LoggerNames \ {"py.warnings"}, levelno \in Range(logging) :
           levelno >= registry.loggers[n].level =>
               callHandlers(registry, n, levelno)
                   = Cardinality({i \in Returns : configure[i].name = n /\ configure[i].log_level <= levelno})

(* After a call at ERROR and a call at DEBUG for the same name the logger     *)
(* holds two handlers; an ERROR record is emitted twice, a DEBUG record once  *)
C23_Witness ==
    /\ Len(configure) = 2 /\ Returns = {1, 2}
    /\ configure[1].name = "rootspace" /\ configure[2].name = "rootspace"
    /\ configure[1].log_level = logging.ERROR /\ configure[2].log_level = logging.DEBUG
    /\ registry.loggers["rootspace"].handlers = <<1, 2>>
    /\ callHandlers(registry, "rootspace", logging.ERROR) = 2
    /\ callHandlers(registry, "rootspace", logging.DEBUG) = 1

----------------------------------------------------------------------------
(* Properties of the rendering demos *)

(* C17: in both demos a frame is rendered only while the close flag of the  *)
(* window is not set; once the loop test has seen the flag no frame is      *)
(* rendered, the window is destroyed and then the library terminated, each  *)
(* once; and a close request leads to the end of the program                *)
C17_CloseEndsLoop ==
    /\ [](demo.pc = "render" => ~demo.should_close)
    /\ [](demo.observed => /\ ~demo.late
                           /\ demo.pc \in {"destroy_window", "terminate", "exit"}
                           /\ demo.destroyed = (IF demo.pc = "destroy_window" THEN 0 ELSE 1)
                           /\ demo.terminated = (IF demo.pc = "exit" THEN 1 ELSE 0))
    /\ [][demo.observed => demo'.frames = demo.frames]_vars
    /\ (demo.close_requested ~> demo.pc \in {"exit", "raised"})

(* A demo ended after frames and a close request, its window destroyed and  *)
(* the library terminated                                                   *)
C17_Witness ==
    /\ demo.which = "glfw_example2"
    /\ demo.pc = "exit"
    /\ demo.observed
    /\ demo.frames = MaxFrames
    /\ demo.destroyed = 1 /\ demo.terminated = 1

(* The places of the calls of op in the current frame *)
Places(op) == {i \in DOMAIN demo.frame : demo.frame[i].op = op}

(* The argument of the last call of op before place i, "0" when there is none *)
Bound(op, i) ==
    IF \E j \in Places(op) : j < i
    THEN demo.frame[CHOOSE j \in Places(op) : j < i /\ \A k \in Places(op) : k < i => k <= j].argument
    ELSE "0"

(* C21: in every frame of both demos the draw, of three vertices, comes     *)
(* after the frame's clear and with the program and the vertex array bound; *)
(* the swap comes after the draw, with both unbound again; the events are   *)
(* polled after the swap; and each of the four happens at most once a frame *)
C21_FrameOrder ==
    /\ \A op \in {"glClear", "glDrawArrays", "glfw.swap_buffers", "glfw.poll_events"} :
           Cardinality(Places(op)) <= 1
    /\ demo.pc \in {"swap_buffers", "poll_events"} => Places("glDrawArrays") # {}
    /\ demo.pc = "poll_events" => Places("glfw.swap_buffers") # {}
    /\ \A i \in Places("glDrawArrays") :
           /\ demo.frame[i].argument = "GL_TRIANGLES, 0, 3"
           /\ \E j \in Places("glClear") : j < i
           /\ Bound("glUseProgram", i) # "0"
           /\ Bound("glBindVertexArray", i) # "0"
    /\ \A i \in Places("glfw.swap_buffers") :
           /\ \E j \in Places("glDrawArrays") : j < i
           /\ Bound("glUseProgram", i) = "0"
           /\ Bound("glBindVertexArray", i) = "0"
    /\ \A i \in Places("glfw.poll_events") : \E j \in Places("glfw.swap_buffers") : j < i

(* glfw_example1 polled the events of its second frame *)
C21_Witness ==
    /\ demo.which = "glfw_example1"
    /\ demo.frames = 2
    /\ demo.pc = "while"
    /\ Len(demo.frame) = 10
    /\ demo.frame[2] = GlCall("glClear", "GL_COLOR_BUFFER_BIT")
    /\ demo.frame[10].op = "glfw.poll_events"

----------------------------------------------------------------------------
(* Properties of the grammar prototype *)

(* C18: a file that raises ParseException gets its three lines of           *)
(* diagnostic and the loop goes on to the next file; every file is tried at *)
(* most once, each time with a grammar of its own, and when no other        *)
(* exception ends main every file of the directory has been tried           *)
C18_BatchContinues ==
    /\ [][batch' # batch /\ batch.pc = "for" /\ batch.next <= Len(batch.files)
              /\ batch.files[batch.next] = "ParseException" =>
                  /\ batch'.pc = "for"
                  /\ batch'.next = batch.next + 1
                  /\ batch'.printed = batch.printed \o Diagnostic(batch.next)]_vars
    /\ [](/\ batch.attempted = [i \in 1..(batch.next - 1) |-> i]
          /\ batch.grammars = Len(batch.attempted)
          /\ batch.pc = "exit" => Len(batch.attempted) = Len(batch.files))

(* A batch ended with a mismatch in its first file and the later files parsed *)
C18_Witness ==
    /\ batch.pc = "exit"
    /\ batch.files = <<"ParseException", "tokens", "tokens">>
    /\ batch.attempted = <<1, 2, 3>>
    /\ batch.grammars = 3
    /\ Len(batch.printed) = 5

====
